---- MODULE Spec2Model ----
(***************************************************************************)
(* A model of the chemical identity resolution engine of                   *)
(* backend/etl: the hybrid matcher (match.py), the semantic veto engine    *)
(* (semantics.py) and the batch pipeline with its review operations        *)
(* (pipeline.py, routes/inventory.py).                                     *)
(*                                                                         *)
(* Strings.  A name is a record [cs, at]: `at' is the sequence of its      *)
(* atoms in lower case (a word, a CAS-shaped token, or "," for a comma     *)
(* that follows the previous atom), `cs' is the letter case it is written  *)
(* in ("U" upper, "T" title, "L" lower, "N" for SQL NULL / Python None).   *)
(* Words are rendered separated by one space; a comma attaches to the      *)
(* atom before it.                                                         *)
(*                                                                         *)
(* Numbers.  A fuzzy score is in tenths of a percent (855 = 85.5), a       *)
(* raw_score in thousandths (1000 = 1.0), a weight in hundredths, a        *)
(* weighted score in units of 1e-5, a returned confidence in units of      *)
(* 1e-4 (the code rounds it to 4 decimals).                                *)
(***************************************************************************)
EXTENDS Integers, Sequences, FiniteSets, TLC

VARIABLES
    db,         \* the reference store: the rows of chemicals with their CAS / UN rows
    loaded,     \* HybridMatcher._loaded
    idx,        \* HybridMatcher's caches (the reference index)
    calls,      \* number of match() calls made on the matcher
    row,        \* the cleaned row of the last match() call
    sc,         \* the similarity scorer's answers in the last call
    result,     \* what the last match() call returned
    sem,        \* the last semantic_score() call: its two names and what it returned
    batches,    \* inventory_batches: the status and progress of every batch
    staging,    \* inventory_staging, in the order of its ids
    audit,      \* number of rows of audit_trail
    queue,      \* review_queue, in the order of its ids
    pc,         \* where every thread of a shared matcher is in its match() call
    trow,       \* the row every thread calls match() with
    tres,       \* what match() returned to every thread
    tables,     \* the tables of chemicals.db that can be read
    call,       \* the last call of a pure function: its name, argument and value
    rx          \* the ReactivityEngine: its caches and its last analysis

\* the matcher and the calls made on it
mvars == <<db, loaded, idx, calls, row, sc, result>>

\* the tables of user.db
pvars == <<batches, staging, audit, queue>>

\* the threads sharing one matcher
cvars == <<pc, trow, tres>>

\* the calls of pure functions, the state of chemicals.db, the reactivity engine
svars == <<sem, tables, call, rx>>

vars == <<mvars, svars, pvars, cvars>>

\* ------------------------------------------------------------------------
\*  Generic helpers
\* ------------------------------------------------------------------------

Range(s) == {s[i] : i \in 1..Len(s)}

Min2(a, b) == IF a <= b THEN a ELSE b

Max2(a, b) == IF a >= b THEN a ELSE b

RECURSIVE Concat(_)
Concat(s) == IF s = <<>> THEN "" ELSE Head(s) \o Concat(Tail(s))

RECURSIVE SumSeq(_)
SumSeq(s) == IF s = <<>> THEN 0 ELSE Head(s) + SumSeq(Tail(s))

RECURSIVE SumOver(_, _)
SumOver(S, f) ==
    IF S = {} THEN 0
    ELSE LET x == CHOOSE y \in S : TRUE IN f[x] + SumOver(S \ {x}, f)

\* The first n elements of a sequence: Python's s[:n].
Take(s, n) == SubSeq(s, 1, Min2(n, Len(s)))

\* A list comprehension, built once (the elements are computed when the list is
\* made, as in Python, and not again at every access).
List(f) == f \o <<>>

\* Python's stable sorted(s, key=...): position of element i is the number of
\* elements that sort strictly before it (smaller key, or equal key and earlier).
StableSortAsc(s, key) ==
    LET k == List(key)
        pos(i) == Cardinality({j \in 1..Len(s) :
                      k[j] < k[i] \/ (k[j] = k[i] /\ j < i)}) + 1
    IN List([p \in 1..Len(s) |-> s[CHOOSE i \in 1..Len(s) : pos(i) = p]])

\* sorted(..., reverse=True) is stable too: equal keys keep their order.
StableSortDesc(s, key) ==
    LET k == List(key)
        pos(i) == Cardinality({j \in 1..Len(s) :
                      k[j] > k[i] \/ (k[j] = k[i] /\ j < i)}) + 1
    IN List([p \in 1..Len(s) |-> s[CHOOSE i \in 1..Len(s) : pos(i) = p]])

\* dict.setdefault(k, []).append(e)
MapAppend(m, k, e) ==
    IF k \in DOMAIN m THEN [m EXCEPT ![k] = Append(@, e)] ELSE m @@ (k :> <<e>>)

\* dict[k] = e
MapPut(m, k, e) ==
    IF k \in DOMAIN m THEN [m EXCEPT ![k] = e] ELSE m @@ (k :> e)

EmptyMap == <<>>

\* ------------------------------------------------------------------------
\*  Strings
\* ------------------------------------------------------------------------

Nm(cs, at) == [cs |-> cs, at |-> at]

NullName == Nm("N", <<>>)

EmptyName == Nm("L", <<>>)

\* (x or '').strip()
OrEmpty(n) == IF n.at = <<>> THEN EmptyName ELSE n

Truthy(n) == n.at # <<>>

Upper(n) == IF n.at = <<>> THEN EmptyName ELSE [n EXCEPT !.cs = "U"]

Lower(n) == IF n.at = <<>> THEN EmptyName ELSE [n EXCEPT !.cs = "L"]

\* len(name): the atoms, one space between two atoms that are not commas
NameLen(n) ==
    LET words == SelectSeq(n.at, LAMBDA a : a # ",")
    IN SumSeq([i \in 1..Len(n.at) |-> Len(n.at[i])])
       + (IF Len(words) > 0 THEN Len(words) - 1 ELSE 0)

\* The digits of the CAS-shaped tokens (\d{2,7}-\d{2}-\d) of the model's universe.
CasDigitsOf ==
    ("67-64-1" :> <<6, 7, 6, 4, 1>>) @@
    ("67-64-2" :> <<6, 7, 6, 4, 2>>) @@
    ("7723-14-0" :> <<7, 7, 2, 3, 1, 4, 0>>) @@
    ("7646-85-7" :> <<7, 6, 4, 6, 8, 5, 7>>)

IsCasShaped(a) == a \in DOMAIN CasDigitsOf

DigitStr(d) ==
    CASE d = 0 -> "0" [] d = 1 -> "1" [] d = 2 -> "2" [] d = 3 -> "3" [] d = 4 -> "4"
      [] d = 5 -> "5" [] d = 6 -> "6" [] d = 7 -> "7" [] d = 8 -> "8" [] d = 9 -> "9"

\* re.sub(r'[\s\-]', '', cas)
StripCas(c) ==
    IF IsCasShaped(c) THEN Concat([i \in 1..Len(CasDigitsOf[c]) |-> DigitStr(CasDigitsOf[c][i])])
    ELSE c

\* _normalize(s): drop every non-alphanumeric character, lower-case
NormAtom(a) == IF a = "," THEN "" ELSE StripCas(a)

Normalize(n) == Concat([i \in 1..Len(n.at) |-> NormAtom(n.at[i])])

\* A formula is [el, sp, lc]: its element groups in lower case, whether it is
\* written with spaces between them, whether it is written in lower case.
\* _normalize_formula(f): drop whitespace, lower-case
NormalizeFormula(f) == Concat(f.el)

\* _validate_cas_checksum(cas)
ValidateCasChecksum(c) ==
    IF ~IsCasShaped(c) THEN FALSE
    ELSE LET digits == CasDigitsOf[c]
             n == Len(digits)
             check == digits[n]
             total == SumSeq([i \in 1..(n - 1) |-> i * digits[n - i]])
         IN n >= 5 /\ total % 10 = check

\* name.split(',')[0].strip().upper()
RECURSIVE BeforeComma(_)
BeforeComma(at) ==
    IF at = <<>> \/ Head(at) = "," THEN <<>> ELSE <<Head(at)>> \o BeforeComma(Tail(at))

BaseName(n) == Upper(Nm(n.cs, BeforeComma(n.at)))

\* ------------------------------------------------------------------------
\*  The reference index (HybridMatcher.__init__, _ensure_caches)
\* ------------------------------------------------------------------------

RECURSIVE Flatten(_)
Flatten(ss) == IF ss = <<>> THEN <<>> ELSE Head(ss) \o Flatten(Tail(ss))

\* HybridMatcher.__init__: every cache empty
EmptyIndex ==
    [cas_map |-> EmptyMap, name_map |-> EmptyMap, norm_map |-> EmptyMap,
     synonym_map |-> EmptyMap, formula_map |-> EmptyMap, un_map |-> EmptyMap,
     fuzzy_names |-> <<>>, fuzzy_name_to_entry |-> EmptyMap,
     fuzzy_syns |-> <<>>, fuzzy_syn_to_entry |-> EmptyMap]

\* SELECT cc.cas_id, ch.id, ch.name FROM chemical_cas cc JOIN chemicals ch
CasRows(d) ==
    Flatten([i \in 1..Len(d) |->
        [j \in 1..Len(d[i].cas) |->
            [cas_id |-> d[i].cas[j], id |-> d[i].id, name |-> d[i].name]]])

\* SELECT cu.unna_id, ch.id, ch.name FROM chemical_unna cu JOIN chemicals ch
UnRows(d) ==
    Flatten([i \in 1..Len(d) |->
        [j \in 1..Len(d[i].un) |->
            [unna_id |-> d[i].un[j], id |-> d[i].id, name |-> d[i].name]]])

RECURSIVE LoadCasRows(_, _)
LoadCasRows(m, rows) ==
    IF rows = <<>> THEN m
    ELSE LET r == Head(rows)
         IN LoadCasRows(
                MapAppend(m, StripCas(r.cas_id), [id |-> r.id, name |-> r.name, cas |-> r.cas_id]),
                Tail(rows))

RECURSIVE LoadUnRows(_, _)
LoadUnRows(m, rows) ==
    IF rows = <<>> THEN m
    ELSE LET r == Head(rows)
         IN LoadUnRows(MapAppend(m, r.unna_id, [id |-> r.id, name |-> r.name]), Tail(rows))

\* the CAS loop of _ensure_caches
LoadCas(ix, d) == [ix EXCEPT !.cas_map = LoadCasRows(@, CasRows(d))]

\* the UN loop of _ensure_caches
LoadUn(ix, d) == [ix EXCEPT !.un_map = LoadUnRows(@, UnRows(d))]

\* one synonym of one chemical
LoadSynonym(ix, entry, syn) ==
    IF ~Truthy(syn) THEN ix
    ELSE LET syn_norm == Normalize(syn)
             syn_low == Lower(syn)
             a == [ix EXCEPT !.synonym_map = MapAppend(@, Upper(syn), entry)]
             b == IF syn_norm # "" /\ syn_norm \notin DOMAIN a.norm_map
                  THEN [a EXCEPT !.norm_map = MapPut(@, syn_norm, entry)]
                  ELSE a
         IN IF syn_low \notin DOMAIN b.fuzzy_syn_to_entry
            THEN [b EXCEPT !.fuzzy_syns = Append(@, syn_low),
                           !.fuzzy_syn_to_entry = MapPut(@, syn_low, entry)]
            ELSE b

RECURSIVE LoadSynonyms(_, _, _)
LoadSynonyms(ix, entry, syns) ==
    IF syns = <<>> THEN ix
    ELSE LoadSynonyms(LoadSynonym(ix, entry, Head(syns)), entry, Tail(syns))

RECURSIVE LoadFormulas(_, _, _)
LoadFormulas(ix, entry, fs) ==
    IF fs = <<>> THEN ix
    ELSE LET f == Head(fs)
             nxt == IF f.el # <<>>
                    THEN [ix EXCEPT !.formula_map = MapAppend(@, NormalizeFormula(f), entry)]
                    ELSE ix
         IN LoadFormulas(nxt, entry, Tail(fs))

\* one row of SELECT id, name, synonyms, formulas FROM chemicals
LoadChemical(ix, r) ==
    LET name == OrEmpty(r.name)
        entry == [id |-> r.id, name |-> name]
        name_norm == Normalize(name)
        low == Lower(name)
        a == IF Truthy(name)
             THEN [ix EXCEPT !.name_map = MapPut(@, Upper(name), entry),
                             !.norm_map = IF name_norm # "" THEN MapPut(@, name_norm, entry) ELSE @,
                             !.fuzzy_names = Append(@, low),
                             !.fuzzy_name_to_entry = MapPut(@, low, entry)]
             ELSE ix
    IN LoadFormulas(LoadSynonyms(a, entry, r.syns), entry, r.formulas)

RECURSIVE LoadNames(_, _)
LoadNames(ix, d) ==
    IF d = <<>> THEN ix ELSE LoadNames(LoadChemical(ix, Head(d)), Tail(d))

\* The body of _ensure_caches once it has found _loaded false.
BuildIndex(ix, d) == LoadNames(LoadUn(LoadCas(ix, d), d), d)

\* a variant of _ensure_caches without the _loaded test: every call loads again
EnsureCachesAlways(ix, ld, d) == BuildIndex(ix, d)

\* _ensure_caches: nothing when already loaded
EnsureCaches(ix, ld, d) == IF ld THEN ix ELSE BuildIndex(ix, d)


\* ------------------------------------------------------------------------
\*  Signals (match.py: SIGNAL_WEIGHTS, Signal, the per-field generators)
\* ------------------------------------------------------------------------

\* SIGNAL_WEIGHTS, in hundredths; .get(source, 0.5) for an unknown source
SignalWeight(source) ==
    CASE source = "cas_exact" -> 100
      [] source = "cas_scanned" -> 95
      [] source = "cas_from_name" -> 90
      [] source = "name_exact" -> 90
      [] source = "name_synonym" -> 85
      [] source = "name_normalized" -> 80
      [] source = "name_fuzzy" -> 70
      [] source = "formula_exact" -> 75
      [] source = "formula_norm" -> 65
      [] source = "un_exact" -> 80
      [] source = "synonym_fuzzy" -> 65
      [] OTHER -> 50

\* source.split('_')[0]
Category(source) ==
    CASE source \in {"cas_exact", "cas_scanned", "cas_from_name"} -> "cas"
      [] source \in {"name_exact", "name_synonym", "name_normalized", "name_fuzzy"} -> "name"
      [] source \in {"formula_exact", "formula_norm"} -> "formula"
      [] source = "un_exact" -> "un"
      [] source = "synonym_fuzzy" -> "synonym"

\* a variant of Signal that does not carry the id of the reference record it
\* was made from
SignalForeignId(cid, cname, source, raw, weight) ==
    [chemical_id |-> cid + 1, chemical_name |-> cname, source |-> source,
     raw_score |-> raw, weight |-> weight]

Signal(cid, cname, source, raw, weight) ==
    [chemical_id |-> cid, chemical_name |-> cname, source |-> source,
     raw_score |-> raw, weight |-> weight]

\* Signal.weighted_score, in units of 1e-5
Weighted(sig) == sig.raw_score * sig.weight

\* the enumerate loop shared by _signals_from_cas and _signals_from_un
RankedHitSignals(sorted_hits, source, w) ==
    [i \in 1..Len(sorted_hits) |->
        Signal(sorted_hits[i].id, sorted_hits[i].name, source,
               IF i = 1 THEN 1000 ELSE 600, w)]

\* sorted(hits, key=lambda h: len(h['name'])) raises TypeError on a None name
SortRaises(hits) == \E i \in 1..Len(hits) : hits[i].name = NullName

SortByNameLen(hits) == StableSortAsc(hits, [i \in 1..Len(hits) |-> NameLen(hits[i].name)])

\* _signals_from_cas(cas, source); key is the dash- and space-stripped cas
SignalsFromCas(ix, key, source) ==
    LET hits == IF key \in DOMAIN ix.cas_map THEN ix.cas_map[key] ELSE <<>>
    IN IF hits = <<>> THEN [err |-> FALSE, sigs |-> <<>>]
       ELSE IF SortRaises(hits) THEN [err |-> TRUE, sigs |-> <<>>]
       ELSE [err |-> FALSE,
             sigs |-> RankedHitSignals(Take(SortByNameLen(hits), 3), source,
                                       SignalWeight(source))]

\* _signals_from_un(un_number).  The un field of a row is [k, v]: None, an
\* integer v (or its decimal string), other text, or the float infinity.  int()
\* raises ValueError or TypeError on a malformed value, which gives no signals;
\* on the float infinity it raises OverflowError, which the except clause
\* does not name.
SignalsFromUn(ix, un) ==
    IF un.k = "inf" THEN [err |-> TRUE, sigs |-> <<>>]
    ELSE IF un.k # "int" THEN [err |-> FALSE, sigs |-> <<>>]
    ELSE LET hits == IF un.v \in DOMAIN ix.un_map THEN ix.un_map[un.v] ELSE <<>>
         IN IF hits = <<>> THEN [err |-> FALSE, sigs |-> <<>>]
            ELSE IF SortRaises(hits) THEN [err |-> TRUE, sigs |-> <<>>]
            ELSE [err |-> FALSE,
                  sigs |-> RankedHitSignals(Take(SortByNameLen(hits), 3), "un_exact",
                                            SignalWeight("un_exact"))]

\* _signals_from_formula(formula)
SignalsFromFormula(ix, formula) ==
    LET fnorm == NormalizeFormula(formula)
        hits == IF fnorm \in DOMAIN ix.formula_map THEN ix.formula_map[fnorm] ELSE <<>>
        top == Take(hits, 3)
    IN [i \in 1..Len(top) |->
           Signal(top[i].id, top[i].name, "formula_exact", 1000, SignalWeight("formula_exact"))]

\* fuzz.WRatio(query, choice), in tenths of a percent.  Identical strings score
\* 100; every other pair gets the scorer's answer scr[choice] for this query.
WRatio(query, choice, scr) == IF query = choice THEN 1000 ELSE scr[choice]

\* rfprocess.extract(query, choices, scorer=fuzz.WRatio, limit=limit):
\* the choices with their scores, best first, at most `limit' of them
Extract(query, choices, scr, limit) ==
    LET scored == List([i \in 1..Len(choices) |->
                      [choice |-> choices[i], score |-> WRatio(query, choices[i], scr)]])
    IN Take(StableSortDesc(scored, [i \in 1..Len(scored) |-> scored[i].score]), limit)

\* the loop over the fuzzy results: one signal per new candidate scoring >= 70
RECURSIVE FuzzySignals(_, _, _, _)
FuzzySignals(results, to_entry, source, found) ==
    IF results = <<>> THEN [sigs |-> <<>>, found |-> found]
    ELSE LET r == Head(results)
             has == r.choice \in DOMAIN to_entry
             entry == to_entry[r.choice]
             take == has /\ entry.id \notin found /\ r.score >= 700
             rest == FuzzySignals(Tail(results), to_entry, source,
                                  IF take THEN found \cup {entry.id} ELSE found)
         IN IF take
            THEN [sigs |-> <<Signal(entry.id, entry.name, source, r.score,
                                    SignalWeight(source))>> \o rest.sigs,
                  found |-> rest.found]
            ELSE rest

\* _signals_from_name(name)
SignalsFromName(ix, name, scr) ==
    LET name_upper == Upper(name)
        name_norm == Normalize(name)
        name_lower == Lower(name)
        exact == IF name_upper \in DOMAIN ix.name_map
                 THEN <<Signal(ix.name_map[name_upper].id, ix.name_map[name_upper].name,
                               "name_exact", 1000, SignalWeight("name_exact"))>>
                 ELSE <<>>
        syn_hits == IF name_upper \in DOMAIN ix.synonym_map
                    THEN ix.synonym_map[name_upper] ELSE <<>>
        syns == List([i \in 1..Len(syn_hits) |->
                    Signal(syn_hits[i].id, syn_hits[i].name, "name_synonym", 1000,
                           SignalWeight("name_synonym"))])
        s1 == exact \o syns
        norm == IF name_norm # "" /\ name_norm \in DOMAIN ix.norm_map
                   /\ ~\E i \in 1..Len(s1) :
                          /\ s1[i].chemical_id = ix.norm_map[name_norm].id
                          /\ s1[i].source \in {"name_exact", "name_synonym"}
                THEN <<Signal(ix.norm_map[name_norm].id, ix.norm_map[name_norm].name,
                              "name_normalized", 1000, SignalWeight("name_normalized"))>>
                ELSE <<>>
        s2 == s1 \o norm
        already_found == {s2[i].chemical_id : i \in 1..Len(s2)}
        fz == IF ix.fuzzy_names # <<>>
              THEN FuzzySignals(Extract(name_lower, ix.fuzzy_names, scr, 5),
                                ix.fuzzy_name_to_entry, "name_fuzzy", already_found)
              ELSE [sigs |-> <<>>, found |-> already_found]
        fs == IF ix.fuzzy_syns # <<>>
              THEN FuzzySignals(Extract(name_lower, ix.fuzzy_syns, scr, 5),
                                ix.fuzzy_syn_to_entry, "synonym_fuzzy", fz.found)
              ELSE [sigs |-> <<>>, found |-> fz.found]
    IN s2 \o fz.sigs \o fs.sigs


\* ------------------------------------------------------------------------
\*  HybridMatcher.match
\* ------------------------------------------------------------------------

NoneId == 0

THRESHOLD_MATCHED == 85

THRESHOLD_REVIEW == 60

\* round(x, n) of a / b, a and b non-negative: Python rounds half to even
RoundDiv(a, b) ==
    LET q == a \div b
        r == a % b
    IN IF 2 * r < b THEN q
       ELSE IF 2 * r > b THEN q + 1
       ELSE IF q % 2 = 0 THEN q ELSE q + 1

\* the first CAS-shaped token of the name that passes the checksum
RECURSIVE FirstValidCas(_)
FirstValidCas(at) ==
    IF at = <<>> THEN ""
    ELSE IF IsCasShaped(Head(at)) /\ ValidateCasChecksum(Head(at)) THEN Head(at)
    ELSE FirstValidCas(Tail(at))

\* The cas field of a cleaned row is [k, s, n]: empty, a CAS-shaped string s, or
\* other text, the name n.
\* CAS_REGEX.match(cas_raw): the field starts with a CAS-shaped token
CasRegexMatch(c) ==
    \/ c.k = "cas"
    \/ c.k = "text" /\ c.n.at # <<>> /\ IsCasShaped(Head(c.n.at))

\* cas_raw.replace('-', '').replace(' ', '').isdigit()
CasIsDigits(c) ==
    \/ c.k = "cas"
    \/ c.k = "text" /\ \A i \in 1..Len(c.n.at) : IsCasShaped(c.n.at[i])

CasLen(c) == IF c.k = "cas" THEN Len(c.s) ELSE IF c.k = "text" THEN NameLen(c.n) ELSE 0

\* re.sub(r'[\s\-]', '', cas_raw)
CasKey(c) == IF c.k = "cas" THEN StripCas(c.s) ELSE Concat(c.n.at)

\* _build_result: the confidence conf_n / (1000 * tmax) is rounded to 4 decimals
BuildResult(chemical_id, chemical_name, method, conf_n, tmax, status, suggestions, signals, conflicts, field_swaps) ==
    [out |-> "returned",
     chemical_id |-> chemical_id,
     chemical_name |-> chemical_name,
     match_method |-> method,
     confidence |-> RoundDiv(conf_n * 10, tmax),
     match_status |-> status,
     suggestions |-> suggestions,
     signals |-> [i \in 1..Len(signals) |->
                     [chemical_id |-> signals[i].chemical_id,
                      chemical_name |-> signals[i].chemical_name,
                      source |-> signals[i].source,
                      score |-> signals[i].raw_score,
                      weighted |-> RoundDiv(Weighted(signals[i]), 100)]],
     conflicts |-> conflicts,
     field_swaps |-> field_swaps]

\* match() left by an exception instead of a return
Raised ==
    [out |-> "raised", chemical_id |-> NoneId, chemical_name |-> NullName,
     match_method |-> "", confidence |-> 0, match_status |-> "",
     suggestions |-> <<>>, signals |-> <<>>, conflicts |-> <<>>, field_swaps |-> <<>>]

\* before any call
NoResult == [Raised EXCEPT !.out = "none"]

\* _fuzzy_suggestions(name, exclude_ids, limit=3): the loop over the results
RECURSIVE FuzzySuggestLoop(_, _, _, _)
FuzzySuggestLoop(results, to_entry, exclude, n) ==
    IF results = <<>> \/ n = 0 THEN <<>>
    ELSE LET r == Head(results)
             has == r.choice \in DOMAIN to_entry
             entry == to_entry[r.choice]
         IN IF has /\ entry.id \notin exclude
            THEN <<[chemical_id |-> entry.id, chemical_name |-> entry.name,
                    score |-> r.score]>>
                 \o FuzzySuggestLoop(Tail(results), to_entry, exclude \cup {entry.id}, n - 1)
            ELSE FuzzySuggestLoop(Tail(results), to_entry, exclude, n)

FuzzySuggestions(ix, name, exclude_ids, scr) ==
    IF ix.fuzzy_names = <<>> THEN <<>>
    ELSE FuzzySuggestLoop(
             Extract(Lower(name), ix.fuzzy_names, scr, 3 + Cardinality(exclude_ids)),
             ix.fuzzy_name_to_entry, exclude_ids, 3)

\* PHASE 1 and 2 of match(): field-swap detection and the signals of every field
GatherSignals(ix, r, scr) ==
    LET name == OrEmpty(r.name)
        cas_in_name == FirstValidCas(name.at)
        name_in_cas == r.cas.k # "empty" /\ ~CasRegexMatch(r.cas)
                       /\ CasLen(r.cas) > 3 /\ ~CasIsDigits(r.cas)
        swaps == (IF cas_in_name # ""
                  THEN <<[kind |-> "cas_in_name", cas |-> cas_in_name, name |-> EmptyName]>>
                  ELSE <<>>)
                 \o (IF name_in_cas
                     THEN <<[kind |-> "name_in_cas", cas |-> "", name |-> r.cas.n]>>
                     ELSE <<>>)
        a == IF r.cas.k # "empty" /\ r.cas_valid
             THEN SignalsFromCas(ix, CasKey(r.cas), "cas_exact")
             ELSE [err |-> FALSE, sigs |-> <<>>]
        b == IF r.cas_scanned # "" /\ ~(r.cas.k = "cas" /\ r.cas.s = r.cas_scanned)
             THEN SignalsFromCas(ix, StripCas(r.cas_scanned), "cas_scanned")
             ELSE [err |-> FALSE, sigs |-> <<>>]
        c == IF cas_in_name # ""
             THEN SignalsFromCas(ix, StripCas(cas_in_name), "cas_from_name")
             ELSE [err |-> FALSE, sigs |-> <<>>]
        n1 == IF Truthy(name) THEN SignalsFromName(ix, name, scr) ELSE <<>>
        n2 == IF name_in_cas THEN SignalsFromName(ix, r.cas.n, scr) ELSE <<>>
        f == IF r.formula.el # <<>> THEN SignalsFromFormula(ix, r.formula) ELSE <<>>
        u == IF r.un.k # "none" THEN SignalsFromUn(ix, r.un)
             ELSE [err |-> FALSE, sigs |-> <<>>]
    IN [err |-> a.err \/ b.err \/ c.err \/ u.err,
        sigs |-> a.sigs \o b.sigs \o c.sigs \o n1 \o n2 \o f \o u.sigs,
        field_swaps |-> swaps,
        cas_given |-> r.cas.k # "empty" \/ r.cas_scanned # "" \/ cas_in_name # "",
        name_given |-> Truthy(name) \/ name_in_cas,
        formula_given |-> r.formula.el # <<>>,
        un_given |-> r.un.k # "none"]


\* the distinct elements of a sequence, in the order of their first occurrence
\* (the key order of a dict filled in that order)
RECURSIVE Distinct(_, _)
Distinct(s, seen) ==
    IF s = <<>> THEN <<>>
    ELSE IF Head(s) \in seen THEN Distinct(Tail(s), seen)
    ELSE <<Head(s)>> \o Distinct(Tail(s), seen \cup {Head(s)})

\* candidate_best_per_type[cid][stype]: the first signal of the largest weighted
\* score among the candidate's signals of that source
BestOfType(signals, cid, stype) ==
    LET mine == SelectSeq(signals, LAMBDA x : x.chemical_id = cid /\ x.source = stype)
        top == CHOOSE i \in 1..Len(mine) :
                   /\ \A j \in 1..Len(mine) : Weighted(mine[j]) <= Weighted(mine[i])
                   /\ \A j \in 1..(i - 1) : Weighted(mine[j]) < Weighted(mine[i])
    IN mine[top]

\* the best signals of a candidate, in the order its source types first appeared
TypeMap(signals, cid) ==
    LET mine == SelectSeq(signals, LAMBDA x : x.chemical_id = cid)
        types == Distinct([i \in 1..Len(mine) |-> mine[i].source], {})
    IN List([i \in 1..Len(types) |-> BestOfType(signals, cid, types[i])])

\* candidate_scores[cid]: the sum of the best weighted score of each source type
CandidateScore(signals, cid) ==
    LET tm == TypeMap(signals, cid)
    IN SumSeq([i \in 1..Len(tm) |-> Weighted(tm[i])])

\* candidate_methods[cid]: the source of the first best signal of the type map
CandidateMethod(signals, cid) ==
    LET tm == TypeMap(signals, cid)
        top == CHOOSE i \in 1..Len(tm) :
                   /\ \A j \in 1..Len(tm) : Weighted(tm[j]) <= Weighted(tm[i])
                   /\ \A j \in 1..(i - 1) : Weighted(tm[j]) < Weighted(tm[i])
    IN tm[top].source

\* candidate_names[cid]: the name carried by the candidate's last signal
CandidateName(signals, cid) ==
    LET mine == SelectSeq(signals, LAMBDA x : x.chemical_id = cid)
    IN mine[Len(mine)].chemical_name

\* a variant of theoretical_max that counts every category the input gives
TheoreticalMaxGiven(g) ==
    Max2((IF g.cas_given THEN SignalWeight("cas_exact") ELSE 0)
         + (IF g.name_given THEN SignalWeight("name_exact") ELSE 0)
         + (IF g.formula_given THEN SignalWeight("formula_exact") ELSE 0)
         + (IF g.un_given THEN SignalWeight("un_exact") ELSE 0), 1)

\* theoretical_max, in hundredths: the top weight of every category that the
\* input gives and that has a useful signal (weighted >= 0.50); when there is
\* none, of every category the input gives; at least 0.01
TheoreticalMax(g) ==
    LET useful == {Category(g.sigs[i].source) :
                      i \in {j \in 1..Len(g.sigs) : Weighted(g.sigs[j]) >= 50000}}
        w(cas, name, formula, un) ==
              (IF cas THEN SignalWeight("cas_exact") ELSE 0)
            + (IF name THEN SignalWeight("name_exact") ELSE 0)
            + (IF formula THEN SignalWeight("formula_exact") ELSE 0)
            + (IF un THEN SignalWeight("un_exact") ELSE 0)
        picked == w(g.cas_given /\ "cas" \in useful,
                    g.name_given /\ ("name" \in useful \/ "synonym" \in useful),
                    g.formula_given /\ "formula" \in useful,
                    g.un_given /\ "un" \in useful)
        total == IF picked # 0 THEN picked
                 ELSE w(g.cas_given, g.name_given, g.formula_given, g.un_given)
    IN Max2(total, 1)

\* the categories that agree with the best candidate: a signal of weighted score
\* >= 0.40 for the best candidate itself, or for a candidate of the same base name
AgreeingCategories(signals, best_id, best_name) ==
    LET best_base == IF Truthy(best_name) THEN BaseName(best_name) ELSE EmptyName
    IN {Category(signals[i].source) : i \in {j \in 1..Len(signals) :
           /\ Weighted(signals[j]) >= 40000
           /\ \/ signals[j].chemical_id = best_id
              \/ /\ Truthy(best_base) /\ NameLen(best_base) >= 5
                 /\ Truthy(signals[j].chemical_name)
                 /\ BaseName(signals[j].chemical_name) = best_base}}

\* a variant of the agreement bonus without the min(..., 1.0)
WithBonusUnclamped(c, k, tmax) == IF k >= 2 THEN c + 120 * (k - 1) * tmax ELSE c

\* the agreement bonus 0.12 * (k - 1), as a numerator over 1000 * theoretical_max,
\* added to the confidence c when k >= 2 categories agree; at most 1.0
WithBonus(c, k, tmax) ==
    IF k >= 2 THEN Min2(c + 120 * (k - 1) * tmax, 1000 * tmax) ELSE c

\* PHASE 4: the candidates of the strong signals (weighted >= 0.50) of a kind
StrongCids(signals, kind) ==
    {signals[i].chemical_id : i \in {j \in 1..Len(signals) :
        /\ Weighted(signals[j]) >= 50000
        /\ CASE kind = "cas" -> Category(signals[j].source) = "cas"
             [] kind = "name" -> signals[j].source \in {"name_exact", "name_synonym"}
             [] kind = "formula" -> Category(signals[j].source) = "formula"}}

CasNameConflict(signals) ==
    /\ StrongCids(signals, "cas") # {}
    /\ StrongCids(signals, "name") # {}
    /\ StrongCids(signals, "cas") \cap StrongCids(signals, "name") = {}

FormulaNameConflict(signals) ==
    /\ StrongCids(signals, "formula") # {}
    /\ StrongCids(signals, "name") # {}
    /\ StrongCids(signals, "formula") \cap StrongCids(signals, "name") = {}

Conflicts(signals) ==
    (IF CasNameConflict(signals)
     THEN <<[kind |-> "cas_vs_name", a |-> StrongCids(signals, "cas"),
             b |-> StrongCids(signals, "name")]>>
     ELSE <<>>)
    \o (IF FormulaNameConflict(signals)
        THEN <<[kind |-> "formula_vs_name", a |-> StrongCids(signals, "formula"),
                b |-> StrongCids(signals, "name")]>>
        ELSE <<>>)

\* a variant of the conflict penalties that leaves the confidence as it is
ConflictCapsNone(c, signals, tmax) == c

\* the penalties of PHASE 4: min(confidence, 0.80) on a CAS / name conflict,
\* then min(confidence, 0.84) when any conflict was recorded
ConflictCaps(c, signals, tmax) ==
    LET c2 == IF CasNameConflict(signals) THEN Min2(c, 800 * tmax) ELSE c
    IN IF Conflicts(signals) # <<>> THEN Min2(c2, 840 * tmax) ELSE c2

\* PHASE 6: the status of a confidence conf_n / (1000 * tmax)
StatusOf(conf_n, tmax) ==
    IF conf_n >= THRESHOLD_MATCHED * 10 * tmax THEN "MATCHED"
    ELSE IF conf_n >= THRESHOLD_REVIEW * 10 * tmax THEN "REVIEW_REQUIRED"
    ELSE "UNIDENTIFIED"

\* a variant of the ranking that sorts the candidates by ascending score
RankedAscending(signals) ==
    LET cands == Distinct([i \in 1..Len(signals) |-> signals[i].chemical_id], {})
    IN StableSortAsc(
           List([i \in 1..Len(cands) |->
                    [cid |-> cands[i], score |-> CandidateScore(signals, cands[i])]]),
           [i \in 1..Len(cands) |-> CandidateScore(signals, cands[i])])

\* candidate_scores in ranked order: sorted(candidate_scores.items(),
\* key=score, reverse=True); the candidates are in the order of their first signal
Ranked(signals) ==
    LET cands == Distinct([i \in 1..Len(signals) |-> signals[i].chemical_id], {})
    IN StableSortDesc(
           List([i \in 1..Len(cands) |->
                    [cid |-> cands[i], score |-> CandidateScore(signals, cands[i])]]),
           [i \in 1..Len(cands) |-> CandidateScore(signals, cands[i])])

\* the best candidate of the ranking
RankingOf(signals, tmax, ranked) ==
    [best_id |-> ranked[1].cid,
     best_score |-> ranked[1].score,
     best_name |-> CandidateName(signals, ranked[1].cid),
     best_method |-> CandidateMethod(signals, ranked[1].cid),
     tmax |-> tmax,
     ranked |-> ranked]

Ranking(g) == RankingOf(g.sigs, TheoreticalMax(g), Ranked(g.sigs))

\* The confidence, kept exact as a numerator over 1000 * theoretical_max:
\* calibrated (min(best_score / theoretical_max, 1.0)), then with the agreement
\* bonus, then with the conflict penalties.
ConfidenceOf(signals, tmax, c0, k) ==
    [calibrated |-> c0,
     agreeing |-> k,
     boosted |-> WithBonus(c0, k, tmax),
     conf_n |-> ConflictCaps(WithBonus(c0, k, tmax), signals, tmax),
     conflicts |-> Conflicts(signals)]

Confidence(signals, rk) ==
    ConfidenceOf(signals, rk.tmax, Min2(rk.best_score, 1000 * rk.tmax),
                 Cardinality(AgreeingCategories(signals, rk.best_id, rk.best_name)))

\* PHASE 5: the suggestions of the ranked candidates (at most 5), the score
\* calibrated like the confidence and rounded to one decimal of a percent
RankedSuggestions(signals, top5, tmax) ==
    List([i \in 1..Len(top5) |->
             [chemical_id |-> top5[i].cid,
              chemical_name |-> CandidateName(signals, top5[i].cid),
              score |-> Min2(RoundDiv(top5[i].score, tmax), 1000)]])

\* PHASE 5: fuzzy suggestions are added when there are fewer than 3
WithFuzzySuggestions(ix, name, sug, scr) ==
    IF Len(sug) < 3 /\ Truthy(name)
    THEN Take(sug \o FuzzySuggestions(ix, name,
                                      {sug[i].chemical_id : i \in 1..Len(sug)}, scr), 5)
    ELSE sug

Suggestions(ix, name, signals, rk, scr) ==
    WithFuzzySuggestions(ix, name, RankedSuggestions(signals, Take(rk.ranked, 5), rk.tmax), scr)

FuseOf(rk, cf, suggestions) ==
    [best_id |-> rk.best_id, best_name |-> rk.best_name, best_method |-> rk.best_method,
     conf_n |-> cf.conf_n, tmax |-> rk.tmax, calibrated |-> cf.calibrated,
     boosted |-> cf.boosted, agreeing |-> cf.agreeing,
     status |-> StatusOf(cf.conf_n, rk.tmax),
     suggestions |-> suggestions, conflicts |-> cf.conflicts]

FuseRanked(ix, r, scr, signals, rk) ==
    FuseOf(rk, Confidence(signals, rk), Suggestions(ix, OrEmpty(r.name), signals, rk, scr))

\* PHASE 3 to 6 of match() for a non-empty list of signals
Fuse(ix, r, scr, g) == FuseRanked(ix, r, scr, g.sigs, Ranking(g))

\* the return of match() on signals that were fused
ResultOf(f, g) ==
    BuildResult(f.best_id, f.best_name, f.best_method, f.conf_n, f.tmax,
                f.status, f.suggestions, g.sigs, f.conflicts, g.field_swaps)

\* match() from PHASE 3 on, the signals gathered
MatchSignals(ix, r, scr, g) ==
    IF g.err THEN Raised
    ELSE IF g.sigs = <<>>
    THEN BuildResult(NoneId, NullName, "unmatched", 0, 1, "UNIDENTIFIED",
                     <<>>, g.sigs, <<>>, g.field_swaps)
    ELSE ResultOf(Fuse(ix, r, scr, g), g)

\* HybridMatcher.match(cleaned) on a loaded index
MatchLoaded(ix, r, scr) == MatchSignals(ix, r, scr, GatherSignals(ix, r, scr))


\* ------------------------------------------------------------------------
\*  semantics.py: token roles and the semantic veto
\* ------------------------------------------------------------------------

\* counter-ions and salt forms
SALT_TOKENS ==
    {"acetate", "aluminium", "aluminum", "ammonium", "anhydrous", "arsenate",
     "arsenite", "azide", "barium", "benzoate", "besylate", "bicarbonate", "bismuth",
     "bromide", "butyrate", "calcium", "carbonate", "chloride", "chromate",
     "chromium", "citrate", "cobalt", "copper", "cyanide", "dichromate", "dihydrate",
     "ferric", "ferrous", "fluoride", "fumarate", "gluconate", "hcl", "heptahydrate",
     "hexahydrate", "hydrochloride", "hydroxide", "hypochlorite", "iodide", "iron",
     "lactate", "lead", "lithium", "magnesium", "maleate", "malonate", "manganese",
     "mercury", "mesylate", "monohydrate", "nickel", "nitrate", "nitrite", "oleate",
     "oxalate", "oxide", "palmitate", "pentahydrate", "permanganate", "peroxide",
     "phosphate", "potassium", "propionate", "salicylate", "silver", "sodium",
     "stearate", "strontium", "succinate", "sulfate", "sulfide", "sulfite",
     "sulphate", "sulphide", "sulphite", "tartrate", "tin", "titanium", "tosylate",
     "triflate", "trihydrate", "valerate", "zinc"}

\* physical form descriptors
FORM_TOKENS ==
    {"aerosol", "bar", "bars", "bead", "beads", "bulk", "capsule", "capsules",
     "chunk", "chunks", "coated", "cream", "crushed", "crystal", "crystalline",
     "crystals", "dc", "delayed", "dp", "ec", "emulsion", "enteric", "extended",
     "flake", "flakes", "foam", "foil", "gel", "gr", "granular", "granule",
     "granules", "ground", "immediate", "injectable", "injection", "liquid", "lump",
     "lumps", "micronized", "milled", "modified", "ointment", "paste", "pellet",
     "pellets", "powder", "raw", "release", "rod", "rods", "sc", "sheet", "sieved",
     "sl", "solution", "sp", "spray", "suspension", "sustained", "syrup", "tablet",
     "tablets", "uncoated", "wg", "wire", "wp"}

\* quality / standard descriptors
GRADE_TOKENS ==
    {"acs", "analytical", "api", "ar", "bp", "certified", "commercial", "cosmetic",
     "cp", "crude", "edible", "ep", "extra", "fcc", "fertilizer", "food",
     "fungicide", "gmp", "grade", "herbicide", "industrial", "insecticide", "iso",
     "jp", "lab", "laboratory", "lr", "nf", "pesticide", "pharma", "pharmaceutical",
     "pure", "purified", "raw", "reach", "reagent", "refined", "research",
     "suprapure", "technical", "ultrapure", "usp"}

\* indicators of a benign input
SAFETY_TOKENS ==
    {"aroma", "aromatic", "beauty", "beeswax", "capsule", "capsules", "carnauba",
     "cellulose", "color", "colorant", "colour", "colourant", "compost", "coolant",
     "cosmetic", "cream", "dextrose", "dietary", "drops", "dye", "edible", "essence",
     "extract", "fertilizer", "flavor", "flavoring", "flavour", "flavouring", "food",
     "fragrance", "gelatin", "gelatine", "glycerin", "glycerine", "glycerol",
     "grease", "haircare", "inhaler", "lactose", "lotion", "lubricant", "manure",
     "mineral", "mulch", "nutritional", "ointment", "paraffin", "perfume", "pigment",
     "skincare", "starch", "sucrose", "supplement", "syrup", "tablet", "tablets",
     "vit", "vitamin", "wax"}

\* single-word markers of dangerous chemicals
HAZARD_TOKENS ==
    {"anfo", "arsenic", "chloropicrin", "chromic", "cyanogen", "detonator",
     "dynamite", "explosive", "hydrofluoric", "mustard", "nerve", "nitroglycerin",
     "perchloric", "perchloride", "phosgene", "phosphorus", "plutonium",
     "radioactive", "radium", "sarin", "tabun", "thorium", "tnt", "uranium", "vx"}

\* multi-word substrings of a hazardous candidate name, each as its two words
DANGEROUS_NAME_PATTERNS ==
    <<<<"fuel", "oil">>, <<"ammonium", "nitrate">>, <<"methyl", "isocyanate">>,
      <<"dimethyl", "sulfate">>, <<"hydrogen", "fluoride">>,
      <<"osmium", "tetroxide">>, <<"nerve", "agent">>, <<"mustard", "gas">>,
      <<"white", "phosphorus">>>>

\* SALT tokens that are hazardous as well
DANGEROUS_SALT_TOKENS ==
    {"arsenate", "arsenite", "azide", "chromate", "cyanide", "dichromate",
     "hypochlorite", "nitrite", "permanganate", "sulfide", "sulphide"}

\* _PHARMA_SUFFIXES: drug name stems
PHARMA_SUFFIXES ==
    {"afil", "amine", "azole", "balin", "barb", "caine", "canide", "cillin",
     "cycline", "dipine", "done", "dronate", "faxine", "floxacin", "flozin",
     "gatran", "gliptin", "glutide", "grelor", "lukast", "mab", "mycin", "nib",
     "olol", "oxacin", "phylline", "pidem", "prazole", "pril", "profen", "quine",
     "ridine", "sartan", "setron", "statin", "tadine", "tidine", "tinib", "vastatin",
     "vir", "xaban", "ximab", "zepam", "zumab"}

\* _EDIBLE_OIL_CONTEXTS
EDIBLE_OIL_CONTEXTS ==
    {"almond", "arachis", "argan", "avocado", "canola", "castor", "coconut", "corn",
     "flaxseed", "hemp", "jojoba", "linseed", "olive", "palm", "peanut", "rapeseed",
     "sesame", "soy", "soybean", "sunflower", "walnut"}

\* _NOISE_WORDS
NOISE_WORDS ==
    {"a", "an", "and", "batch", "black", "blend", "blue", "bright", "brown", "by",
     "category", "chemical", "class", "coarse", "compound", "dark", "expired",
     "fine", "for", "fresh", "from", "green", "heavy", "in", "item", "light", "lot",
     "material", "medium", "mixture", "new", "no", "nr", "of", "old", "or", "pale",
     "product", "red", "substance", "the", "thick", "thin", "to", "type", "white",
     "with", "yellow"}

\* The string tests of this section (`w in s', s.startswith(w), s.endswith(w))
\* split an atom into a tested word and what is left of it; these are the
\* left-over parts of the atoms of the model's universe.
Affixes == {"", "nitrate-", "-fuel", "ome", "omepr", "f"}

StartsWith(a, w) == \E q \in Affixes : a = w \o q

EndsWith(a, w) == \E p \in Affixes : a = p \o w

Contains(a, w) == \E p \in Affixes : \E q \in Affixes : a = p \o w \o q

\* the numbers ([\d.,]+) of the model's universe
NumberStrings == {"39", "0.5", "5"}

ConcUnits ==
    {"%", "mg/ml", "mg/l", "g/l", "ppm", "ppb", "w/w", "v/v", "w/v", "mol/l", "m", "mm"}

\* _CONC_PATTERN.match(w)
IsConc(w) == \E n \in NumberStrings : \E u \in ConcUnits : w = n \o u

\* _NUMBER_PATTERN.match(w)
IsNumber(w) == w \in NumberStrings

\* _E_NUMBER_PATTERN.match(w): e, three or four digits, at most one letter
ENumberDigits == {"330", "1520"}

IsENumber(w) == \E n \in ENumberDigits : \E s \in {"", "a"} : w = "e" \o n \o s

\* a variant of classify_token that looks at the SAFETY set before the GRADE,
\* FORM and SALT sets
ClassifyTokenSafetyFirst(w) ==
    IF w = "" THEN "NOISE"
    ELSE IF IsConc(w) THEN "CONC"
    ELSE IF IsNumber(w) THEN "NOISE"
    ELSE IF Len(w) <= 1 THEN "NOISE"
    ELSE IF w \in NOISE_WORDS THEN "NOISE"
    ELSE IF IsENumber(w) THEN "BASE"
    ELSE IF w \in SAFETY_TOKENS THEN "SAFETY"
    ELSE IF w \in GRADE_TOKENS THEN "GRADE"
    ELSE IF w \in FORM_TOKENS THEN "FORM"
    ELSE IF w \in SALT_TOKENS THEN "SALT"
    ELSE IF w \in HAZARD_TOKENS THEN "HAZARD"
    ELSE "BASE"

\* classify_token(word), word in lower case: the first rule that applies wins
ClassifyToken(w) ==
    IF w = "" THEN "NOISE"
    ELSE IF IsConc(w) THEN "CONC"
    ELSE IF IsNumber(w) THEN "NOISE"
    ELSE IF Len(w) <= 1 THEN "NOISE"
    ELSE IF w \in NOISE_WORDS THEN "NOISE"
    ELSE IF IsENumber(w) THEN "BASE"
    ELSE IF w \in GRADE_TOKENS THEN "GRADE"
    ELSE IF w \in FORM_TOKENS THEN "FORM"
    ELSE IF w \in SALT_TOKENS THEN "SALT"
    ELSE IF w \in SAFETY_TOKENS THEN "SAFETY"
    ELSE IF w \in HAZARD_TOKENS THEN "HAZARD"
    ELSE "BASE"

\* t.strip().strip('-').strip('.'): of the atoms of the universe only the bare
\* dash and the bare dot have such a character at an end
StripToken(a) == IF a \in {"-", ".", ","} THEN "" ELSE a

ClassifiedToken(cs, a) == [text |-> Nm(cs, <<a>>), role |-> ClassifyToken(a), normalized |-> a]

\* classify_name(name): commas become spaces, the pieces that strip to nothing are
\* skipped, every other piece is classified
ClassifyName(n) ==
    LET kept == SelectSeq(n.at, LAMBDA a : StripToken(a) # "")
    IN List([i \in 1..Len(kept) |-> ClassifiedToken(n.cs, StripToken(kept[i]))])

TokensOfRole(tokens, role) == SelectSeq(tokens, LAMBDA t : t.role = role)

Normalized(tokens) == {tokens[i].normalized : i \in 1..Len(tokens)}

Texts(tokens) == List([i \in 1..Len(tokens) |-> tokens[i].text])

\* set(extract_base_tokens(classified))
ExtractBaseTokens(tokens) == Normalized(TokensOfRole(tokens, "BASE"))

\* set(extract_salt_tokens(classified))
ExtractSaltTokens(tokens) == Normalized(TokensOfRole(tokens, "SALT"))

HasSafetyContext(tokens) == \E i \in 1..Len(tokens) : tokens[i].role = "SAFETY"

IsHazardToken(t) ==
    \/ t.role = "HAZARD"
    \/ t.role = "SALT" /\ t.normalized \in DANGEROUS_SALT_TOKENS

\* `pattern in name.lower()': the two words of the pattern, one space apart, are
\* the end of one atom and the start of the next
PatternIn(pat, n) ==
    \E i \in 1..(Len(n.at) - 1) :
        /\ n.at[i + 1] # ","
        /\ EndsWith(n.at[i], pat[1])
        /\ StartsWith(n.at[i + 1], pat[2])

\* `w in name.lower()' for a single word w
WordIn(w, n) == \E i \in 1..Len(n.at) : Contains(n.at[i], w)

\* a variant that looks at the HAZARD role only
HasHazardTokensRoleOnly(tokens, full_name) ==
    \E i \in 1..Len(tokens) : tokens[i].role = "HAZARD"

\* has_hazard_tokens(classified, full_name)
HasHazardTokens(tokens, full_name) ==
    \/ \E i \in 1..Len(tokens) : IsHazardToken(tokens[i])
    \/ /\ Truthy(full_name)
       /\ \E k \in 1..Len(DANGEROUS_NAME_PATTERNS) : PatternIn(DANGEROUS_NAME_PATTERNS[k], full_name)

\* is_pharma_name(name) for the text of one token
IsPharmaName(t) == \E suffix \in PHARMA_SUFFIXES : EndsWith(t.normalized, suffix)

\* re.split(r'[\s,;:()/\-]+', lower) inside one atom: the atoms written with a
\* hyphen between two words
HyphenSplit == ("nitrate-fuel" :> {"nitrate", "fuel"})

WordsOf(a) == IF a \in DOMAIN HyphenSplit THEN HyphenSplit[a] ELSE {a}

\* is_edible_oil_context(name)
IsEdibleOilContext(n) ==
    /\ WordIn("oil", n)
    /\ \E i \in 1..Len(n.at) : WordsOf(n.at[i]) \cap EDIBLE_OIL_CONTEXTS # {}

\* _overlap_ratio(input_set, candidate_set), in sixtieths (exact for 1..6 tokens)
OverlapRatio(input_set, candidate_set) ==
    IF input_set = {} THEN 0
    ELSE (60 * Cardinality(input_set \cap candidate_set)) \div Cardinality(input_set)

\* _roles_summary(tokens): role -> the texts of its tokens, in order
RolesSummary(tokens) ==
    [role \in {tokens[i].role : i \in 1..Len(tokens)} |-> Texts(TokensOfRole(tokens, role))]

\* cand_hazard_labels: the texts of the hazard tokens, then the patterns found in
\* the candidate name that are not among those texts
TokenHazardLabels(tokens) == Texts(SelectSeq(tokens, IsHazardToken))

PatternLabels(candidate_name, labels) ==
    LET lowered == {Lower(labels[i]) : i \in 1..Len(labels)}
        found == SelectSeq(DANGEROUS_NAME_PATTERNS,
                           LAMBDA pat : PatternIn(pat, candidate_name) /\ Nm("L", pat) \notin lowered)
    IN List([k \in 1..Len(found) |-> Nm("L", found[k])])

HazardLabels(tokens, candidate_name) ==
    TokenHazardLabels(tokens) \o PatternLabels(candidate_name, TokenHazardLabels(tokens))

\* A veto reason is the text the code formats: `rule' is the words it starts
\* with, `about' the input side it quotes, `hazard' the candidate side it quotes.
VetoReason(rule, about, hazard) == [rule |-> rule, about |-> about, hazard |-> hazard]

NoReason == VetoReason("None", <<>>, <<>>)

NotVetoed == [vetoed |-> FALSE, veto_reason |-> NoReason]

Vetoed(rule, about, hazard) == [vetoed |-> TRUE, veto_reason |-> VetoReason(rule, about, hazard)]

PharmaTokens(input_tokens) ==
    SelectSeq(input_tokens, LAMBDA t : t.role = "BASE" /\ IsPharmaName(t))

\* the base tokens of the input, once each, as the text of rule 3 shows them
BaseTexts(input_tokens) ==
    LET bases == TokensOfRole(input_tokens, "BASE")
        first == SelectSeq([i \in 1..Len(bases) |-> i],
                           LAMBDA i : \A j \in 1..(i - 1) : bases[j].normalized # bases[i].normalized)
    IN List([k \in 1..Len(first) |-> Nm("L", <<bases[first[k]].normalized>>)])

FuelContext(candidate_name) ==
    \/ WordIn("fuel", candidate_name)
    \/ WordIn("nitrate", candidate_name)
    \/ WordIn("explosive", candidate_name)
    \/ WordIn("mixture", candidate_name)

\* the veto rules of semantic_score, in order; the first that applies decides
VetoRules(input_name, candidate_name, input_tokens, cand_tokens, cand_has_hazard, labels) ==
    IF HasSafetyContext(input_tokens) /\ cand_has_hazard
    THEN Vetoed("Safety veto", Texts(TokensOfRole(input_tokens, "SAFETY")), labels)
    ELSE IF cand_has_hazard /\ PharmaTokens(input_tokens) # <<>>
    THEN Vetoed("Pharma veto", <<PharmaTokens(input_tokens)[1].text>>, labels)
    ELSE IF /\ cand_has_hazard
            /\ ExtractBaseTokens(input_tokens) # {}
            /\ ExtractBaseTokens(input_tokens) \cap ExtractBaseTokens(cand_tokens) = {}
    THEN Vetoed("Base+hazard veto", BaseTexts(input_tokens), labels)
    ELSE IF IsEdibleOilContext(input_name) /\ FuelContext(candidate_name)
    THEN Vetoed("Edible oil veto", <<input_name>>, <<candidate_name>>)
    ELSE NotVetoed

\* the score of a pair that is not vetoed, in units of 1/6000
SemScoreUnit == 6000

RawScore(input_bases, cand_bases, input_salts, cand_salts, base_overlap, salt_overlap) ==
    IF input_bases # {} /\ base_overlap = 0
    THEN Min2(salt_overlap * 25, 2100)
    ELSE IF input_bases = {} THEN salt_overlap * 50
    ELSE base_overlap * 60 + salt_overlap * 25
         + (IF input_bases \subseteq cand_bases THEN 600 ELSE 0)
         + (IF input_salts # {} /\ input_salts \subseteq cand_salts THEN 300 ELSE 0)

ScoreOf(input_tokens, input_bases, cand_bases, input_salts, cand_salts) ==
    IF TokensOfRole(input_tokens, "CONC") # <<>> /\ input_bases = {} /\ input_salts = {}
    THEN 0
    ELSE Max2(0, Min2(SemScoreUnit,
                      RawScore(input_bases, cand_bases, input_salts, cand_salts,
                               OverlapRatio(input_bases, cand_bases),
                               OverlapRatio(input_salts, cand_salts))))

\* what semantic_score returns: score in 1/6000, the overlaps in thousandths
SemResult(veto, input_tokens, cand_tokens, input_bases, cand_bases, input_salts, cand_salts) ==
    IF veto.vetoed
    THEN [score |-> 0, base_overlap |-> 0, salt_overlap |-> 0,
          vetoed |-> TRUE, veto_reason |-> veto.veto_reason,
          input_roles |-> RolesSummary(input_tokens),
          candidate_roles |-> RolesSummary(cand_tokens)]
    ELSE [score |-> ScoreOf(input_tokens, input_bases, cand_bases, input_salts, cand_salts),
          base_overlap |-> RoundDiv(OverlapRatio(input_bases, cand_bases) * 1000, 60),
          salt_overlap |-> RoundDiv(OverlapRatio(input_salts, cand_salts) * 1000, 60),
          vetoed |-> FALSE, veto_reason |-> NoReason,
          input_roles |-> RolesSummary(input_tokens),
          candidate_roles |-> RolesSummary(cand_tokens)]

SemanticScoreTokens(input_name, candidate_name, input_tokens, cand_tokens) ==
    SemResult(VetoRules(input_name, candidate_name, input_tokens, cand_tokens,
                        HasHazardTokens(cand_tokens, candidate_name),
                        HazardLabels(cand_tokens, candidate_name)),
              input_tokens, cand_tokens,
              ExtractBaseTokens(input_tokens), ExtractBaseTokens(cand_tokens),
              ExtractSaltTokens(input_tokens), ExtractSaltTokens(cand_tokens))

\* semantic_score(input_name, candidate_name)
SemanticScore(input_name, candidate_name) ==
    SemanticScoreTokens(input_name, candidate_name,
                        ClassifyName(input_name), ClassifyName(candidate_name))


\* ------------------------------------------------------------------------
\*  The reference store and the cleaned rows the matcher is called with
\* ------------------------------------------------------------------------

\* at most MaxRefs records in the reference store
MaxRefs == 2

\* at most MaxCalls calls of match() on one matcher
MaxCalls == 3

Formula(el, sp, lc) == [el |-> el, sp |-> sp, lc |-> lc]

NoFormula == Formula(<<>>, FALSE, FALSE)

\* rows of the chemicals table with their chemical_cas / chemical_unna rows
RefPool ==
    {[id |-> 1, name |-> Nm("U", <<"acetone">>),
      syns |-> <<Nm("T", <<"dimethyl", "ketone">>)>>,
      formulas |-> <<Formula(<<"c3", "h6", "o">>, FALSE, FALSE)>>,
      cas |-> <<"67-64-1">>, un |-> <<1090>>],
     [id |-> 2, name |-> Nm("U", <<"zinc", "chloride">>),
      syns |-> <<>>,
      formulas |-> <<Formula(<<"zn", "cl2">>, FALSE, FALSE)>>,
      cas |-> <<"7646-85-7">>, un |-> <<2331>>],
     [id |-> 3, name |-> Nm("U", <<"phosphorus", ",", "white">>),
      syns |-> <<>>,
      formulas |-> <<>>,
      cas |-> <<"7723-14-0">>, un |-> <<1381>>],
     [id |-> 4, name |-> Nm("U", <<"phosphorus", ",", "amorphous">>),
      syns |-> <<>>,
      formulas |-> <<>>,
      cas |-> <<"7723-14-0">>, un |-> <<1338>>]}

\* a set of records as the table returns it: in id order
RECURSIVE InIdOrder(_)
InIdOrder(S) ==
    IF S = {} THEN <<>>
    ELSE LET r == CHOOSE x \in S : \A y \in S : x.id <= y.id
         IN <<r>> \o InIdOrder(S \ {r})

RefStores == {InIdOrder(S) : S \in {T \in SUBSET RefPool : Cardinality(T) <= MaxRefs}}

RefIds(d) == {d[i].id : i \in 1..Len(d)}

\* the values of the name column
RowNames ==
    {NullName,
     Nm("T", <<"acetone">>),
     Nm("U", <<"zinc", "chloride">>),
     Nm("T", <<"white", "wax">>),
     Nm("U", <<"phosphorus", "white">>),
     Nm("T", <<"acetone", "67-64-1">>)}

CasField(k, s, n) == [k |-> k, s |-> s, n |-> n]

\* the values of the cas column with the validity the cleaning layer gave them
RowCas ==
    {[cas |-> CasField("empty", "", NullName), cas_valid |-> FALSE],
     [cas |-> CasField("cas", "67-64-1", NullName), cas_valid |-> TRUE],
     [cas |-> CasField("cas", "7646-85-7", NullName), cas_valid |-> TRUE],
     [cas |-> CasField("cas", "67-64-2", NullName), cas_valid |-> FALSE],
     [cas |-> CasField("text", "", Nm("T", <<"zinc", "chloride">>)), cas_valid |-> FALSE]}

RowScanned == {"", "7723-14-0"}

RowFormulas == {NoFormula, Formula(<<"zn", "cl2">>, FALSE, FALSE)}

UnField(k, v) == [k |-> k, v |-> v]

RowUn == {UnField("none", 0), UnField("int", 2331)}

Rows ==
    {[name |-> n, cas |-> c.cas, cas_valid |-> c.cas_valid, cas_scanned |-> s,
      formula |-> f, un |-> u] :
        n \in RowNames, c \in RowCas, s \in RowScanned, f \in RowFormulas, u \in RowUn}

EmptyRow ==
    [name |-> NullName, cas |-> CasField("empty", "", NullName), cas_valid |-> FALSE,
     cas_scanned |-> "", formula |-> NoFormula, un |-> UnField("none", 0)]

\* the answers fuzz.WRatio may give for two different strings, in tenths of a
\* percent: below the 70 cut, 88 * 0.9 (a partial match), 95 * 0.9 (a shared token)
FuzzyScores == {600, 792, 855}

\* the strings the scorer is asked to compare a query with
Corpus(d) ==
    LET ix == BuildIndex(EmptyIndex, d)
    IN Range(ix.fuzzy_names) \cup Range(ix.fuzzy_syns)

\* a row that makes match() call the scorer
HasNameQuery(r) ==
    \/ Truthy(OrEmpty(r.name))
    \/ r.cas.k = "text"

\* the scorers a call may meet; one that is never asked is left constant
Scorers(d, r) ==
    IF HasNameQuery(r) THEN [Corpus(d) -> FuzzyScores]
    ELSE {[c \in Corpus(d) |-> 600]}

\* ------------------------------------------------------------------------
\*  The matcher as a state machine: calls of match() on one instance
\* ------------------------------------------------------------------------

\* a matcher as HybridMatcher(db_path) leaves it: nothing loaded, nothing called
FreshMatcher ==
    /\ loaded = FALSE
    /\ idx = EmptyIndex
    /\ calls = 0
    /\ row = EmptyRow
    /\ sc = <<>>
    /\ result = NoResult

\* the tables match.py and the reactivity engine read
AllTables ==
    {"chemicals", "chemical_cas", "chemical_unna", "mm_chemical_react", "reactivity"}

\* no pure function called yet
NoCall == [fn |-> "", arg |-> <<>>, out |-> <<>>]

\* no analysis returned yet
NoAnalysis == [raised |-> FALSE, ids |-> <<>>, matrix |-> <<>>, overall |-> "", water |-> {}]

\* a ReactivityEngine as __init__ leaves it, on a database with no reactivity data
RxIdle ==
    [react |-> <<>>, reactivity |-> <<>>, special |-> {}, rule_cache |-> <<>>,
     group_cache |-> <<>>, audit_log |-> 0, out |-> NoAnalysis]

\* chemicals.db whole, no function called, no engine used
Untouched ==
    /\ tables = AllTables
    /\ call = NoCall
    /\ rx = RxIdle

\* no semantic_score() call made yet
SemIdle ==
    [called |-> FALSE, input_name |-> EmptyName, candidate_name |-> EmptyName,
     out |-> SemanticScore(EmptyName, EmptyName)]

\* user.db after init_inventory_tables: every table empty
EmptyTables ==
    /\ batches = <<>>
    /\ staging = <<>>
    /\ audit = 0
    /\ queue = <<>>

\* no thread has called match()
NoThreads ==
    /\ pc = <<>>
    /\ trow = <<>>
    /\ tres = <<>>

Init ==
    /\ db \in RefStores
    /\ FreshMatcher
    /\ sem = SemIdle
    /\ Untouched
    /\ EmptyTables
    /\ NoThreads

\* one call of match(cleaned): _ensure_caches, then the signals and their fusion
Match(r, scr) ==
    /\ idx' = EnsureCaches(idx, loaded, db)
    /\ loaded' = TRUE
    /\ result' = MatchLoaded(idx', r, scr)
    /\ row' = r
    /\ sc' = scr
    /\ calls' = calls + 1
    /\ UNCHANGED db

\* the first call on a fresh matcher, with any row
MatchFirst ==
    /\ calls = 0
    /\ \E r \in Rows : \E scr \in Scorers(db, r) : Match(r, scr)
    /\ UNCHANGED <<svars, pvars, cvars>>

\* a later call, with the row of the call before it (the scorer is a function:
\* the same strings get the same answers)
MatchAgain ==
    /\ calls > 0
    /\ calls < MaxCalls
    /\ Match(row, sc)
    /\ UNCHANGED <<svars, pvars, cvars>>

Next == MatchFirst \/ MatchAgain

Spec == Init /\ [][Next]_vars

\* ------------------------------------------------------------------------
\*  semantic_score as a function of two names
\* ------------------------------------------------------------------------

\* at most MaxTokens words in an input name
MaxTokens == 2

\* the words input names are made of
SemWords ==
    {"wax", "white", "phosphorus", "cyanide", "sodium", "oil", "arachis",
     "omeprazole", "capsule", "food", "acetone", "39%", "zinc", "gluconate"}

\* the names made of those words, and a name in which 'oil' is part of a word
SemInputs ==
    {EmptyName} \cup
    {Nm("T", at) : at \in UNION {[1..n -> SemWords] : n \in 1..MaxTokens}} \cup
    {Nm("T", <<"arachis", "foil">>)}

\* candidate names: the names of the reference records and more hazardous ones
SemCandidates ==
    {r.name : r \in RefPool} \cup
    {Nm("U", <<"sodium", "cyanide">>),
     Nm("U", <<"fuel", "oil">>),
     Nm("U", <<"ammonium", "nitrate">>),
     Nm("U", <<"ammonium", "nitrate-fuel", "oil", "mixture">>),
     Nm("U", <<"zinc", "gluconate">>),
     Nm("U", <<"paraffin", "wax">>),
     Nm("U", <<"peanut", "oil">>),
     Nm("U", <<"omeprazole", "sodium">>),
     Nm("U", <<"arachis", "mixture">>)}

InitSem ==
    /\ db = <<>>
    /\ FreshMatcher
    /\ sem = SemIdle
    /\ Untouched
    /\ EmptyTables
    /\ NoThreads

SemanticScoreCall ==
    /\ sem.called = FALSE
    /\ \E input_name \in SemInputs : \E candidate_name \in SemCandidates :
          sem' = [called |-> TRUE, input_name |-> input_name,
                  candidate_name |-> candidate_name,
                  out |-> SemanticScore(input_name, candidate_name)]
    /\ UNCHANGED <<mvars, tables, call, rx, pvars, cvars>>

NextSem == SemanticScoreCall

SpecSem == InitSem /\ [][NextSem]_vars

\* ------------------------------------------------------------------------
\*  pipeline.py and routes/inventory.py: batches, staging rows, review
\* ------------------------------------------------------------------------

\* at most MaxBatches uploads
MaxBatches == 2

\* at most MaxStaging rows processed over all batches
MaxStaging == 2

\* at most MaxAudit rows of audit_trail
MaxAudit == 3

\* a record of chemicals whose name is NULL
Unnamed ==
    [id |-> 5, name |-> NullName, syns |-> <<>>,
     formulas |-> <<Formula(<<"h2o">>, FALSE, FALSE)>>,
     cas |-> <<"7723-14-0">>, un |-> <<>>]

\* chemicals.db of the pipeline runs: ACETONE, ZINC CHLORIDE and the unnamed record
PipeStore == InIdOrder({r \in RefPool : r.id \in {1, 2}} \cup {Unnamed})

\* the cleaned rows of the uploaded files, as validate_row leaves them (a CAS
\* found in another column is copied to the cas entry)
PipeRows ==
    {[EmptyRow EXCEPT !.name = Nm("T", <<"acetone">>),
                      !.cas = CasField("cas", "67-64-1", NullName), !.cas_valid = TRUE,
                      !.cas_scanned = "67-64-1"],
     [EmptyRow EXCEPT !.name = Nm("T", <<"white", "wax">>)],
     [EmptyRow EXCEPT !.formula = Formula(<<"h2o">>, FALSE, FALSE)],
     [EmptyRow EXCEPT !.cas = CasField("cas", "7723-14-0", NullName), !.cas_valid = TRUE,
                      !.cas_scanned = "7723-14-0"]}

\* the scorer of a run rates every pair of different strings alike
PipeScorers(d) == {[c \in Corpus(d) |-> s] : s \in {600, 855}}

\* MatchResult(...), or MatchResult() when the validation fails
Validated(res) ==
    IF /\ res.confidence >= 0 /\ res.confidence <= 10000
       /\ res.match_status \in {"MATCHED", "REVIEW_REQUIRED", "UNIDENTIFIED"}
    THEN [chemical_id |-> res.chemical_id, chemical_name |-> res.chemical_name,
          match_method |-> res.match_method, confidence |-> res.confidence,
          match_status |-> res.match_status]
    ELSE [chemical_id |-> NoneId, chemical_name |-> NullName,
          match_method |-> "unmatched", confidence |-> 0,
          match_status |-> "UNIDENTIFIED"]

\* _determine_review_priority(status, confidence, conflicts, issues)
DetermineReviewPriority(status, confidence, conflicts) ==
    IF conflicts # <<>> THEN "critical"
    ELSE IF status = "UNIDENTIFIED" THEN "high"
    ELSE IF confidence < 6500 THEN "high"
    ELSE IF confidence < 8000 THEN "medium"
    ELSE "low"

StagingRow(b, row_index, v) ==
    [batch_id |-> b, row_index |-> row_index, match_status |-> v.match_status,
     chemical_id |-> v.chemical_id, match_method |-> v.match_method,
     confidence |-> v.confidence]

\* the row written when the processing of a row raised
ErrorRow(b, row_index) ==
    [batch_id |-> b, row_index |-> row_index, match_status |-> "ERROR",
     chemical_id |-> NoneId, match_method |-> "", confidence |-> 0]

\* the review_queue row of a result that needs review; staging_id is
\* cursor.lastrowid, the id of the audit_trail row inserted just before
QueueRow(b, lastrowid, v, res) ==
    [batch_id |-> b, staging_id |-> lastrowid,
     priority |-> DetermineReviewPriority(v.match_status, v.confidence, res.conflicts),
     status |-> "pending"]

NeedsReview(v) == v.match_status \in {"REVIEW_REQUIRED", "UNIDENTIFIED"}

Processing == {b \in 1..Len(batches) : batches[b].status = "processing"}

\* A batch is [status, total_rows, processed, error_msg, step]: the columns of its
\* inventory_batches row, and where its thread is in _run_pipeline: "start"
\* (not yet run), "ingest", "map", "rows", "done" (the thread has ended).
\* an upload: create_batch inserts the batch as 'pending', run_async starts its
\* thread
CreateBatch ==
    /\ Len(batches) < MaxBatches
    /\ batches' = Append(batches, [status |-> "pending", total_rows |-> 0, processed |-> 0,
                                   error_msg |-> "", step |-> "start"])
    /\ UNCHANGED <<mvars, svars, staging, audit, queue, cvars>>

\* the first statement of _run_pipeline marks the batch as processing; one run
\* at a time
StartPipeline(b) ==
    /\ batches[b].step = "start"
    /\ Processing = {}
    /\ batches' = [batches EXCEPT ![b].status = "processing", ![b].step = "ingest"]
    /\ UNCHANGED <<mvars, svars, staging, audit, queue, cvars>>

\* Layer 1: read_file gives the rows of the file, and total_rows is stored
ReadFile(b) ==
    /\ batches[b].step = "ingest"
    /\ \E total \in 1..(MaxStaging - Len(staging)) :
          batches' = [batches EXCEPT ![b].total_rows = total, ![b].step = "map"]
    /\ UNCHANGED <<mvars, svars, staging, audit, queue, cvars>>

\* Layer 2: map_columns, then the run makes a matcher of its own
MapColumns(b) ==
    /\ batches[b].step = "map"
    /\ batches' = [batches EXCEPT ![b].step = "rows"]
    /\ loaded' = FALSE
    /\ idx' = EmptyIndex
    /\ calls' = 0
    /\ row' = EmptyRow
    /\ sc' = <<>>
    /\ result' = NoResult
    /\ UNCHANGED <<db, svars, staging, audit, queue, cvars>>

\* a variant of the outer handler that does not store the status
PipelineErrorLost(b) ==
    /\ batches[b].step \in {"ingest", "map", "rows"}
    /\ batches' = [batches EXCEPT ![b].step = "done"]
    /\ UNCHANGED <<mvars, svars, staging, audit, queue, cvars>>

\* "except Exception as e": read_file, map_columns, the making of the matcher,
\* the progress update or generate_summary raised; the batch ends in error
PipelineError(b) ==
    /\ batches[b].step \in {"ingest", "map", "rows"}
    /\ batches' = [batches EXCEPT ![b].status = "error", ![b].step = "done",
                                  ![b].error_msg = "str(e)"]
    /\ UNCHANGED <<mvars, svars, staging, audit, queue, cvars>>

\* the tables after the row loop has handled one matched row
StoreRow(b, res, v) ==
    /\ staging' = Append(staging, StagingRow(b, batches[b].processed + 1, v))
    /\ audit' = audit + 1
    /\ queue' = IF NeedsReview(v) THEN Append(queue, QueueRow(b, audit + 1, v, res))
                ELSE queue

\* one turn of the row loop: match, validate, store; a row whose match raises
\* is stored as an ERROR row
ProcessRow(b) ==
    /\ batches[b].step = "rows"
    /\ batches[b].processed < batches[b].total_rows
    /\ \E r \in PipeRows : \E scr \in PipeScorers(db) : Match(r, scr)
    /\ IF result'.out = "raised"
       THEN /\ staging' = Append(staging, ErrorRow(b, batches[b].processed + 1))
            /\ UNCHANGED <<audit, queue>>
       ELSE StoreRow(b, result', Validated(result'))
    /\ batches' = [batches EXCEPT ![b].processed = @ + 1]
    /\ UNCHANGED <<svars, cvars>>

\* the file has no rows: the batch ends in error
EmptyFile(b) ==
    /\ batches[b].step = "ingest"
    /\ batches' = [batches EXCEPT ![b].status = "error", ![b].step = "done",
                                  ![b].error_msg = "File is empty or could not be read"]
    /\ UNCHANGED <<mvars, svars, staging, audit, queue, cvars>>

\* a variant of the completion that does not wait for the end of the row loop
CompleteBatchEarly(b) ==
    /\ batches[b].step = "rows"
    /\ batches' = [batches EXCEPT ![b].status = "completed", ![b].step = "done"]
    /\ UNCHANGED <<mvars, svars, staging, audit, queue, cvars>>

\* the row loop is over: generate_summary, and the batch is completed
CompleteBatch(b) ==
    /\ batches[b].step = "rows"
    /\ batches[b].processed = batches[b].total_rows
    /\ batches' = [batches EXCEPT ![b].status = "completed", ![b].step = "done"]
    /\ UNCHANGED <<mvars, svars, staging, audit, queue, cvars>>

\* SELECT id, name FROM chemicals WHERE id = ?
ChemicalExists(d, chemical_id) == \E i \in 1..Len(d) : d[i].id = chemical_id

\* a variant of the routes' checks that lets every chemical_id through
RouteAcceptsAny(d, id, chemical_id) == id # 0

\* the checks of a review route: both ids given, the chemical in chemicals.db
RouteAccepts(d, id, chemical_id) ==
    /\ id # 0
    /\ chemical_id # NoneId
    /\ ChemicalExists(d, chemical_id)

\* UPDATE inventory_staging SET chemical_id = ?, match_status = 'MATCHED', ...
\* WHERE id = ?
UpdateStaging(t, staging_id, chemical_id, method) ==
    IF staging_id \in 1..Len(t)
    THEN [t EXCEPT ![staging_id].chemical_id = chemical_id,
                   ![staging_id].match_status = "MATCHED",
                   ![staging_id].match_method = method,
                   ![staging_id].confidence = 10000]
    ELSE t

\* the ids a request may carry: none (0), those of rows, one of no row
RequestIds == 0..(MaxStaging + 1)

\* the chemical_id of a request: none, one of chemicals.db, one that is not there
RequestChemicals == {NoneId, 1, 9}

\* POST /api/inventory/confirm; a request the route rejects changes nothing
ConfirmMatch(staging_id, chemical_id) ==
    /\ IF ~RouteAccepts(db, staging_id, chemical_id)
       THEN UNCHANGED staging
       ELSE staging' = UpdateStaging(staging, staging_id, chemical_id, "manual_confirm")
    /\ UNCHANGED <<mvars, svars, batches, audit, queue, cvars>>

\* POST /api/inventory/resolve_review; a request the route rejects, or for a
\* queue item that is not there, changes nothing
ResolveReview(queue_id, chemical_id) ==
    /\ IF ~RouteAccepts(db, queue_id, chemical_id)
       THEN UNCHANGED <<staging, queue, audit>>
       ELSE IF queue_id \notin 1..Len(queue)
       THEN UNCHANGED <<staging, queue, audit>>
       ELSE /\ audit < MaxAudit
            /\ staging' = UpdateStaging(staging, queue[queue_id].staging_id,
                                        chemical_id, "manual_review")
            /\ queue' = [queue EXCEPT ![queue_id].status = "resolved"]
            /\ audit' = audit + 1
    /\ UNCHANGED <<mvars, svars, batches, cvars>>

InitPipe ==
    /\ db = PipeStore
    /\ FreshMatcher
    /\ sem = SemIdle
    /\ Untouched
    /\ EmptyTables
    /\ NoThreads

\* a step of the thread of batch b
PipelineStep(b) ==
    /\ b \in 1..Len(batches)
    /\ \/ StartPipeline(b)
       \/ ReadFile(b)
       \/ EmptyFile(b)
       \/ MapColumns(b)
       \/ CompleteBatch(b)
       \/ PipelineError(b)
       \/ ProcessRow(b)

\* the uploads and the steps of their threads
NextRun ==
    \/ CreateBatch
    \/ \E b \in 1..Len(batches) : StartPipeline(b)
    \/ \E b \in 1..Len(batches) : ReadFile(b)
    \/ \E b \in 1..Len(batches) : EmptyFile(b)
    \/ \E b \in 1..Len(batches) : MapColumns(b)
    \/ \E b \in 1..Len(batches) : ProcessRow(b)
    \/ \E b \in 1..Len(batches) : CompleteBatch(b)
    \/ \E b \in 1..Len(batches) : PipelineError(b)

NextPipe ==
    \/ NextRun
    \/ \E i \in RequestIds : \E c \in RequestChemicals : ConfirmMatch(i, c)
    \/ \E i \in RequestIds : \E c \in RequestChemicals : ResolveReview(i, c)

SpecPipe == InitPipe /\ [][NextPipe]_vars

\* The runs alone, with their scheduling: run_async starts a thread for every
\* batch, and a started thread runs on until _run_pipeline returns (the review
\* requests do not write inventory_batches)
SpecRun == InitPipe /\ [][NextRun]_vars /\ \A b \in 1..MaxBatches : WF_vars(PipelineStep(b))

\* ------------------------------------------------------------------------
\*  match() called by several threads on one shared matcher
\* ------------------------------------------------------------------------

\* at most MaxThreads threads share the matcher
MaxThreads == 2

Threads == 1..MaxThreads

\* chemicals.db of the shared matcher: the two records that share a CAS number
ConcStore == InIdOrder({r \in RefPool : r.id \in {3, 4}})

\* the rows the threads call match() with
ConcRows ==
    {[EmptyRow EXCEPT !.cas = CasField("cas", "7723-14-0", NullName), !.cas_valid = TRUE],
     [EmptyRow EXCEPT !.name = Nm("U", <<"phosphorus", "white">>)]}

\* the scorer rates every pair of different strings alike
ConcScorer == [c \in Corpus(ConcStore) |-> 600]

InitConc ==
    /\ db = ConcStore
    /\ FreshMatcher
    /\ sem = SemIdle
    /\ Untouched
    /\ EmptyTables
    /\ pc = [t \in Threads |-> "idle"]
    /\ trow = [t \in Threads |-> EmptyRow]
    /\ tres = [t \in Threads |-> NoResult]

\* a step of thread t from one place of match() to the next
Goto(t, from, to) ==
    /\ pc[t] = from
    /\ pc' = [pc EXCEPT ![t] = to]

\* thread t calls match(cleaned)
CallMatch(t) ==
    /\ Goto(t, "idle", "check")
    /\ \E r \in ConcRows : trow' = [trow EXCEPT ![t] = r]
    /\ UNCHANGED <<mvars, svars, pvars, tres>>

\* _ensure_caches: `if self._loaded: return'
CheckLoaded(t) ==
    /\ pc[t] = "check"
    /\ pc' = [pc EXCEPT ![t] = IF loaded THEN "read" ELSE "cas"]
    /\ UNCHANGED <<mvars, svars, pvars, trow, tres>>

\* _ensure_caches: the loop over the chemical_cas rows
LoadCasRun(t) ==
    /\ Goto(t, "cas", "un")
    /\ idx' = LoadCas(idx, db)
    /\ UNCHANGED <<db, loaded, calls, row, sc, result, svars, pvars, trow, tres>>

\* _ensure_caches: the loop over the chemical_unna rows
LoadUnRun(t) ==
    /\ Goto(t, "un", "names")
    /\ idx' = LoadUn(idx, db)
    /\ UNCHANGED <<db, loaded, calls, row, sc, result, svars, pvars, trow, tres>>

\* _ensure_caches: the loop over the chemicals rows
LoadNamesRun(t) ==
    /\ Goto(t, "names", "set")
    /\ idx' = LoadNames(idx, db)
    /\ UNCHANGED <<db, loaded, calls, row, sc, result, svars, pvars, trow, tres>>

\* _ensure_caches: `self._loaded = True'
SetLoaded(t) ==
    /\ Goto(t, "set", "read")
    /\ loaded' = TRUE
    /\ UNCHANGED <<db, idx, calls, row, sc, result, svars, pvars, trow, tres>>

\* the rest of match(): the signals and their fusion, read from the caches
ReadIndex(t) ==
    /\ Goto(t, "read", "done")
    /\ tres' = [tres EXCEPT ![t] = MatchLoaded(idx, trow[t], ConcScorer)]
    /\ calls' = calls + 1
    /\ UNCHANGED <<db, loaded, idx, row, sc, result, svars, pvars, trow>>

NextConc ==
    \E t \in Threads :
        \/ CallMatch(t)
        \/ CheckLoaded(t)
        \/ LoadCasRun(t)
        \/ LoadUnRun(t)
        \/ LoadNamesRun(t)
        \/ SetLoaded(t)
        \/ ReadIndex(t)

SpecConc == InitConc /\ [][NextConc]_vars


\* ------------------------------------------------------------------------
\*  A matcher on a chemicals.db that may lack tables
\* ------------------------------------------------------------------------

\* the tables the three SELECTs of _ensure_caches read
MatcherTables == {"chemicals", "chemical_cas", "chemical_unna"}

\* chemicals.db: acetone and white phosphorus
LoadStore == InIdOrder({r \in RefPool : r.id \in {1, 3}})

\* the rows match() is called with
LoadRows ==
    {[EmptyRow EXCEPT !.cas = CasField("cas", "7723-14-0", NullName), !.cas_valid = TRUE],
     [EmptyRow EXCEPT !.name = Nm("U", <<"acetone">>)],
     [EmptyRow EXCEPT !.name = Nm("T", <<"white", "wax">>)]}

LoadScorer == [c \in Corpus(LoadStore) |-> 600]

\* HybridMatcher(db_path) returned a matcher
MatcherExists == call.fn = "HybridMatcher" /\ call.out = "matcher"

\* the SELECT over chemical_cas JOIN chemicals runs
CasReadable(tb) == {"chemical_cas", "chemicals"} \subseteq tb

\* the SELECT over chemical_unna JOIN chemicals runs
UnReadable(tb) == {"chemical_unna", "chemicals"} \subseteq tb

\* _ensure_caches on a database with the tables tb: the index it leaves, and
\* whether it returned (ok) or was left by sqlite3.OperationalError
EnsureCachesOn(ix, ld, d, tb) ==
    IF ld THEN [idx |-> ix, ok |-> TRUE]
    ELSE IF ~CasReadable(tb) THEN [idx |-> ix, ok |-> FALSE]
    ELSE IF ~UnReadable(tb) THEN [idx |-> LoadCas(ix, d), ok |-> FALSE]
    ELSE [idx |-> BuildIndex(ix, d), ok |-> TRUE]

InitLoad ==
    /\ db = LoadStore
    /\ FreshMatcher
    /\ sem = SemIdle
    /\ tables \in {(AllTables \ MatcherTables) \cup T : T \in SUBSET MatcherTables}
    /\ call = NoCall
    /\ rx = RxIdle
    /\ EmptyTables
    /\ NoThreads

\* HybridMatcher(db_path): sets the path and the empty caches, reads nothing
Construct ==
    /\ call.fn = ""
    /\ call' = [fn |-> "HybridMatcher", arg |-> <<>>, out |-> "matcher"]
    /\ UNCHANGED <<mvars, sem, tables, rx, pvars, cvars>>

\* the outcome of match(r) given what _ensure_caches did
MatchAfter(e, r) ==
    /\ idx' = e.idx
    /\ loaded' = (loaded \/ e.ok)
    /\ result' = IF e.ok THEN MatchLoaded(e.idx, r, LoadScorer) ELSE Raised
    /\ row' = r
    /\ sc' = LoadScorer
    /\ calls' = calls + 1

\* match(cleaned) on the matcher, chemicals.db being what it is at the call
MatchOnStore ==
    /\ MatcherExists
    /\ calls < MaxCalls
    /\ \E r \in LoadRows : MatchAfter(EnsureCachesOn(idx, loaded, db, tables), r)
    /\ UNCHANGED <<db, svars, pvars, cvars>>

\* the missing tables are created: _get_conn opens the file anew in every call,
\* so the next call sees them
RepairStore ==
    /\ tables # AllTables
    /\ tables' = AllTables
    /\ UNCHANGED <<mvars, sem, call, rx, pvars, cvars>>

NextLoad == Construct \/ MatchOnStore \/ RepairStore

SpecLoad == InitLoad /\ [][NextLoad]_vars

\* ------------------------------------------------------------------------
\*  match() on rows whose fields are absent, empty or malformed
\* ------------------------------------------------------------------------

\* the values of a cas column that is empty or holds no valid CAS number: a
\* CAS-shaped string with a wrong check digit, a three-letter string, a name
MalformedCas ==
    {CasField("empty", "", NullName),
     CasField("cas", "67-64-2", NullName),
     CasField("text", "", Nm("L", <<"abc">>)),
     CasField("text", "", Nm("T", <<"zinc", "chloride">>))}

\* un_number: None, the string 'UN1090', float('inf')
MalformedUn == {UnField("none", 0), UnField("text", 0), UnField("inf", 0)}

\* formula: None, a string that is no formula of the store
MalformedFormulas == {NoFormula, Formula(<<"x">>, FALSE, FALSE)}

\* rows without one well-formed identifying field; cas_valid is False
MalformedRows ==
    {[name |-> n, cas |-> c, cas_valid |-> FALSE, cas_scanned |-> "",
      formula |-> f, un |-> u] :
        n \in {NullName, EmptyName}, c \in MalformedCas, f \in MalformedFormulas, u \in MalformedUn}

\* a scorer that rates every pair of different strings alike
FlatScorer(d, s) == [c \in Corpus(d) |-> s]

\* match(cleaned) with such a row
MatchMalformed ==
    /\ calls < MaxCalls
    /\ \E r \in MalformedRows : \E s \in {600, 855} : Match(r, FlatScorer(db, s))
    /\ UNCHANGED <<svars, pvars, cvars>>

NextMal == MatchMalformed

SpecMal == Init /\ [][NextMal]_vars

\* ------------------------------------------------------------------------
\*  CAS numbers as strings: validate_cas, is_likely_product_code,
\*  reconstruct_cas_from_digits
\* ------------------------------------------------------------------------

\* A raw string is the sequence of its characters.
DigitValue ==
    ("0" :> 0) @@ ("1" :> 1) @@ ("2" :> 2) @@ ("3" :> 3) @@ ("4" :> 4) @@
    ("5" :> 5) @@ ("6" :> 6) @@ ("7" :> 7) @@ ("8" :> 8) @@ ("9" :> 9)

DigitChars == DOMAIN DigitValue

\* the characters str.strip() and \s take for whitespace
Whitespace == {" ", "\t"}

\* str.isdigit(): not empty, digits only
IsDigit(s) == s # <<>> /\ \A i \in 1..Len(s) : s[i] \in DigitChars

RECURSIVE LStrip(_)
LStrip(s) == IF s # <<>> /\ Head(s) \in Whitespace THEN LStrip(Tail(s)) ELSE s

RECURSIVE RStrip(_)
RStrip(s) ==
    IF s # <<>> /\ s[Len(s)] \in Whitespace THEN RStrip(SubSeq(s, 1, Len(s) - 1)) ELSE s

\* s.strip()
Strip(s) == RStrip(LStrip(s))

\* s.replace(ch, '')
Without(s, chars) == SelectSeq(s, LAMBDA c : c \notin chars)

\* the number of digits s starts with
RECURSIVE DigitRun(_)
DigitRun(s) == IF s # <<>> /\ Head(s) \in DigitChars THEN 1 + DigitRun(Tail(s)) ELSE 0

\* what follows the leading digits of a match of ^\d{2,7}-\d{2}-\d$
CasTail(s, n) ==
    /\ Len(s) = n + 5
    /\ s[n + 1] = "-"
    /\ s[n + 2] \in DigitChars
    /\ s[n + 3] \in DigitChars
    /\ s[n + 4] = "-"
    /\ s[n + 5] \in DigitChars

\* re.match(r'^\d{2,7}-\d{2}-\d$', cas)
MatchesCasPattern(s) == DigitRun(s) \in 2..7 /\ CasTail(s, DigitRun(s))

\* sum((i + 1) * int(d) for i, d in enumerate(reversed(body)))
RECURSIVE WeightedSum(_, _)
WeightedSum(body, i) ==
    IF body = <<>> THEN 0
    ELSE i * DigitValue[body[Len(body)]] + WeightedSum(SubSeq(body, 1, Len(body) - 1), i + 1)

\* total % 10 == check_digit, on the digits of a CAS number
ChecksumHolds(digits_only) ==
    WeightedSum(SubSeq(digits_only, 1, Len(digits_only) - 1), 1) % 10
        = DigitValue[digits_only[Len(digits_only)]]

\* the value of validate_cas: (is_valid, cleaned cas) or (False, message)
CasVerdict(valid, cas, error) == [valid |-> valid, cas |-> cas, error |-> error]

\* a variant of validate_cas that accepts every string of the CAS form
ValidateCasFormOnly(cas_string) ==
    IF Strip(cas_string) = <<>> THEN CasVerdict(FALSE, <<>>, "Empty CAS")
    ELSE IF ~MatchesCasPattern(Without(Strip(cas_string), {" "}))
    THEN CasVerdict(FALSE, <<>>, "Invalid format")
    ELSE CasVerdict(TRUE, Without(Strip(cas_string), {" "}), "")

\* validate_cas(cas_string)
ValidateCas(cas_string) ==
    IF Strip(cas_string) = <<>> THEN CasVerdict(FALSE, <<>>, "Empty CAS")
    ELSE IF ~MatchesCasPattern(Without(Strip(cas_string), {" "}))
    THEN CasVerdict(FALSE, <<>>, "Invalid format")
    ELSE IF ChecksumHolds(Without(Without(Strip(cas_string), {" "}), {"-"}))
    THEN CasVerdict(TRUE, Without(Strip(cas_string), {" "}), "")
    ELSE CasVerdict(FALSE, <<>>, "Checksum failed")

\* at most MaxSeg free digits in the first segment of a string
MaxSeg == 3

\* the digits the first segments are written with
SegDigits == {"1", "6", "7"}

\* first segments: one to MaxSeg digits, and seven and eight digits
FirstSegments ==
    UNION {[1..n -> SegDigits] : n \in 1..MaxSeg} \cup
    {<<"1", "2", "3", "4", "5", "6", "7">>, <<"1", "2", "3", "4", "5", "6", "7", "8">>}

\* strings around the CAS form: blanks and tabs at the ends and inside, a
\* missing dash, a letter, segments too short and too long, every check digit
CasStrings ==
    {lead \o seg1 \o sep1 \o seg2 \o sep2 \o chk \o trail :
        lead \in {<<>>, <<" ">>},
        seg1 \in FirstSegments,
        sep1 \in {<<"-">>, <<" ", "-">>, <<"\t", "-">>},
        seg2 \in {<<"6", "4">>, <<"4">>, <<"6", "4", "1">>},
        sep2 \in {<<"-">>, <<"a">>},
        chk \in {<<>>} \cup {<<c>> : c \in DigitChars},
        trail \in {<<>>, <<"\t">>, <<"x">>}}

\* validate_cas(s) for one of these strings
ValidateCasCall ==
    /\ call.fn = ""
    /\ \E s \in CasStrings :
          call' = [fn |-> "validate_cas", arg |-> s, out |-> ValidateCas(s)]
    /\ UNCHANGED <<mvars, sem, tables, rx, pvars, cvars>>

\* the prefixes is_likely_product_code takes for the start of a product code
ProductPrefixes ==
    {<<"1", "1", "1">>, <<"1", "1", "2">>, <<"1", "1", "0">>,
     <<"1", "0", "0">>, <<"2", "0", "0">>, <<"3", "0", "0">>}

\* is_likely_product_code(raw)
IsLikelyProductCode(raw) ==
    IF raw = <<>> THEN FALSE
    ELSE IF ~IsDigit(Without(raw, Whitespace \cup {"-"})) THEN FALSE
    ELSE IF Len(Without(raw, Whitespace \cup {"-"})) > 10 THEN TRUE
    ELSE /\ Len(Without(raw, Whitespace \cup {"-"})) >= 8
         /\ SubSeq(Without(raw, Whitespace \cup {"-"}), 1, 3) \in ProductPrefixes

\* a variant of is_plausible_cas whose length bound is 7 to 11 characters
IsPlausibleCasShort(raw) ==
    /\ Strip(raw) # <<>>
    /\ MatchesCasPattern(Strip(raw))
    /\ Len(Strip(raw)) >= 7
    /\ Len(Strip(raw)) <= 11
    /\ IsDigit(Without(Strip(raw), {"-"}))
    /\ Len(Without(Strip(raw), {"-"})) >= 5
    /\ ChecksumHolds(Without(Strip(raw), {"-"}))

\* is_plausible_cas(raw)
IsPlausibleCas(raw) ==
    /\ Strip(raw) # <<>>
    /\ MatchesCasPattern(Strip(raw))
    /\ Len(Strip(raw)) >= 7
    /\ Len(Strip(raw)) <= 12
    /\ IsDigit(Without(Strip(raw), {"-"}))
    /\ Len(Without(Strip(raw), {"-"})) >= 5
    /\ ChecksumHolds(Without(Strip(raw), {"-"}))

\* None, where a function returns a string or None
NoneStr == <<"None">>

\* f"{body}-{group}-{check}" of a digit string
Candidate(digits) ==
    SubSeq(digits, 1, Len(digits) - 3) \o <<"-">>
        \o SubSeq(digits, Len(digits) - 2, Len(digits) - 1) \o <<"-">>
        \o <<digits[Len(digits)]>>

\* the reconstruction of a digit string of 5 to 10 digits
ReconstructDigits(digits) ==
    IF ~IsPlausibleCas(Candidate(digits)) THEN NoneStr
    ELSE IF ValidateCas(Candidate(digits)).valid THEN ValidateCas(Candidate(digits)).cas
    ELSE NoneStr

\* a variant of reconstruct_cas_from_digits without the product-code test
ReconstructAnyDigits(digits) ==
    IF ~IsDigit(digits) \/ Len(digits) < 5 \/ Len(digits) > 10 THEN NoneStr
    ELSE ReconstructDigits(digits)

\* reconstruct_cas_from_digits(digits)
ReconstructCasFromDigits(digits) ==
    IF ~IsDigit(digits) \/ Len(digits) < 5 \/ Len(digits) > 10 THEN NoneStr
    ELSE IF IsLikelyProductCode(digits) THEN NoneStr
    ELSE ReconstructDigits(digits)

\* at most MaxMid digits between the first three and the last
MaxMid == 7

\* the first three characters of the strings
CodeStarts == ProductPrefixes \cup {<<"1", "1", "3">>, <<"6", "7", "6">>}

\* strings of 5 to MaxMid + 4 digits, plain or with a dash, a blank, a tab or
\* a letter after the third
CodeStrings ==
    {start \o gap \o mid \o <<last>> :
        start \in CodeStarts,
        gap \in {<<>>, <<"-">>, <<" ">>, <<"\t">>, <<"a">>},
        mid \in UNION {[1..n -> {"0", "4"}] : n \in 1..MaxMid},
        last \in DigitChars}

\* is_likely_product_code(raw) for one of these strings
ProductCodeCall ==
    /\ call.fn = ""
    /\ \E raw \in CodeStrings :
          call' = [fn |-> "is_likely_product_code", arg |-> raw,
                   out |-> IsLikelyProductCode(raw)]
    /\ UNCHANGED <<mvars, sem, tables, rx, pvars, cvars>>

\* reconstruct_cas_from_digits(digits) for one of these strings
ReconstructCall ==
    /\ call.fn = ""
    /\ \E digits \in CodeStrings :
          call' = [fn |-> "reconstruct_cas_from_digits", arg |-> digits,
                   out |-> ReconstructCasFromDigits(digits)]
    /\ UNCHANGED <<mvars, sem, tables, rx, pvars, cvars>>

\* no function called yet
InitCas ==
    /\ db = <<>>
    /\ FreshMatcher
    /\ sem = SemIdle
    /\ Untouched
    /\ EmptyTables
    /\ NoThreads

NextCas == ValidateCasCall \/ ProductCodeCall \/ ReconstructCall

SpecCas == InitCas /\ [][NextCas]_vars

\* ------------------------------------------------------------------------
\*  classify_token and classify_name as functions
\* ------------------------------------------------------------------------

\* the words classify_token is called with: every word of every token set,
\* blank input, numbers, concentrations, E-numbers, a single letter, and
\* words of no set
TokenWords ==
    NOISE_WORDS \cup GRADE_TOKENS \cup FORM_TOKENS \cup SALT_TOKENS
        \cup SAFETY_TOKENS \cup HAZARD_TOKENS
        \cup {"", "39", "0.5", "39%", "5m", "0.5mg/ml", "e330", "e1520a", "f",
              "acetone", "omeprazole", "arachis"}

\* classify_token(word) for one of these words, in any case
ClassifyTokenCall ==
    /\ call.fn = ""
    /\ \E w \in TokenWords : \E cs \in {"L", "U", "T"} :
          call' = [fn |-> "classify_token", arg |-> Nm(cs, <<w>>),
                   out |-> ClassifyToken(Lower(Nm(cs, <<w>>)).at[1])]
    /\ UNCHANGED <<mvars, sem, tables, rx, pvars, cvars>>

\* classify_name(name) for a name of at most MaxTokens words
ClassifyNameCall ==
    /\ call.fn = ""
    /\ \E n \in SemInputs \cup SemCandidates :
          call' = [fn |-> "classify_name", arg |-> n, out |-> ClassifyName(n)]
    /\ UNCHANGED <<mvars, sem, tables, rx, pvars, cvars>>

NextTok == ClassifyTokenCall \/ ClassifyNameCall

SpecTok == InitCas /\ [][NextTok]_vars

\* ------------------------------------------------------------------------
\*  match() of names against a store with ZINC CHLORIDE and ZINC GLUCONATE
\* ------------------------------------------------------------------------

\* chemicals.db: ZINC CHLORIDE with a synonym, and ZINC GLUCONATE
ZincStore ==
    <<[id |-> 2, name |-> Nm("U", <<"zinc", "chloride">>),
       syns |-> <<Nm("T", <<"zinc", "dichloride">>)>>,
       formulas |-> <<Formula(<<"zn", "cl2">>, FALSE, FALSE)>>,
       cas |-> <<"7646-85-7">>, un |-> <<2331>>],
      [id |-> 6, name |-> Nm("U", <<"zinc", "gluconate">>),
       syns |-> <<>>, formulas |-> <<>>, cas |-> <<>>, un |-> <<>>]>>

\* the rows: a name, alone or with the CAS or the UN number of ZINC CHLORIDE
ZincRows ==
    {[EmptyRow EXCEPT !.name = n, !.cas = c.cas, !.cas_valid = c.cas_valid, !.un = u] :
        n \in {Nm("T", <<"zinc", "gluconate">>), Nm("L", <<"zinc", "gluconate">>),
               Nm("T", <<"zinc", "chloride">>), Nm("T", <<"zinc">>)},
        c \in {[cas |-> CasField("empty", "", NullName), cas_valid |-> FALSE],
               [cas |-> CasField("cas", "7646-85-7", NullName), cas_valid |-> TRUE]},
        u \in {UnField("none", 0), UnField("int", 2331)}}

\* the answers of fuzz.WRatio for two different strings, in tenths of a
\* percent: from 0 to 100, on both sides of the cut at 70
ZincScores == {0, 699, 700, 1000}

InitZinc ==
    /\ db = ZincStore
    /\ FreshMatcher
    /\ sem = SemIdle
    /\ Untouched
    /\ EmptyTables
    /\ NoThreads

\* match(cleaned) on a fresh matcher, with any of the rows and any scorer
MatchZinc ==
    /\ calls = 0
    /\ \E r \in ZincRows : \E scr \in [Corpus(ZincStore) -> ZincScores] : Match(r, scr)
    /\ UNCHANGED <<svars, pvars, cvars>>

NextZinc == MatchZinc

SpecZinc == InitZinc /\ [][NextZinc]_vars

\* ------------------------------------------------------------------------
\*  The reactivity engine (logic/reactivity_engine.py, logic/constants.py)
\*
\*  rx.react       mm_chemical_react: for each chem_id its react_id rows, in
\*                 row order
\*  rx.reactivity  the reactivity table: rows [react1, react2,
\*                 pair_compatibility] in row order ("" is a NULL or empty
\*                 pair_compatibility)
\*  rx.special     the chemicals whose special_hazards text names a hazard
\*  rx.rule_cache, rx.group_cache   the engine's two dictionaries
\*  rx.audit_log   the number of rows of audit_log
\*  rx.out         what the last analyze() returned
\*  A rule is modelled by its compatibility: the hazards and gas products it
\*  carries never enter a compatibility.
\* ------------------------------------------------------------------------

\* the keys of COMPATIBILITY_MAP, in the order of the dictionary
CompatibilityOrder == <<"COMPATIBLE", "CAUTION", "INCOMPATIBLE", "NO_DATA">>

\* COMPATIBILITY_MAP[c].priority
PriorityOf(c) ==
    CASE c = "COMPATIBLE" -> 1
      [] c = "CAUTION" -> 2
      [] c = "INCOMPATIBLE" -> 3
      [] c = "NO_DATA" -> 2

\* for compat, info in COMPATIBILITY_MAP.items(): if info.priority == p: ... break
FirstWithPriority(p) ==
    CompatibilityOrder[CHOOSE i \in 1..Len(CompatibilityOrder) :
        /\ PriorityOf(CompatibilityOrder[i]) = p
        /\ \A k \in 1..(i - 1) : PriorityOf(CompatibilityOrder[k]) # p]

WATER_GROUP_ID == 104

\* DB_COMPATIBILITY_MAP.get(db_compat, Compatibility.NO_DATA)
DbCompatibility(db_compat) ==
    CASE db_compat \in {"Compatible", "C"} -> "COMPATIBLE"
      [] db_compat \in {"Caution", "I-C"} -> "CAUTION"
      [] db_compat \in {"Incompatible", "I"} -> "INCOMPATIBLE"
      [] OTHER -> "NO_DATA"

NormalizePair(g1, g2) == <<Min2(g1, g2), Max2(g1, g2)>>

\* the rows the SELECT of _get_rule matches, in row order
RuleRows(reactivity, n) ==
    SelectSeq(reactivity, LAMBDA r :
        \/ r.react1 = n[1] /\ r.react2 = n[2]
        \/ r.react1 = n[2] /\ r.react2 = n[1])

\* the compatibility of the fetched row: row['pair_compatibility'] or 'Compatible'
RowCompatibility(r) ==
    DbCompatibility(IF r.pair_compatibility = "" THEN "Compatible" ELSE r.pair_compatibility)

\* self._rule_cache[normalized] = result; return result
Cached(cache, normalized, compatibility) ==
    [cache |-> MapPut(cache, normalized, compatibility), compatibility |-> compatibility]

\* _get_rule with a missing rule read as compatible
GetRuleOpen(cache, reactivity, group1_id, group2_id) ==
    IF NormalizePair(group1_id, group2_id) \in DOMAIN cache
    THEN [cache |-> cache, compatibility |-> cache[NormalizePair(group1_id, group2_id)]]
    ELSE IF group1_id = group2_id
    THEN Cached(cache, NormalizePair(group1_id, group2_id), "COMPATIBLE")
    ELSE IF RuleRows(reactivity, NormalizePair(group1_id, group2_id)) = <<>>
    THEN Cached(cache, NormalizePair(group1_id, group2_id), "COMPATIBLE")
    ELSE Cached(cache, NormalizePair(group1_id, group2_id),
                RowCompatibility(Head(RuleRows(reactivity, NormalizePair(group1_id, group2_id)))))

\* _get_rule: the cache first, then the same-group rule, then the table; the
\* answer is [cache, compatibility]
GetRule(cache, reactivity, group1_id, group2_id) ==
    IF NormalizePair(group1_id, group2_id) \in DOMAIN cache
    THEN [cache |-> cache, compatibility |-> cache[NormalizePair(group1_id, group2_id)]]
    ELSE IF group1_id = group2_id
    THEN Cached(cache, NormalizePair(group1_id, group2_id), "COMPATIBLE")
    ELSE IF RuleRows(reactivity, NormalizePair(group1_id, group2_id)) = <<>>
    THEN Cached(cache, NormalizePair(group1_id, group2_id), "NO_DATA")
    ELSE Cached(cache, NormalizePair(group1_id, group2_id),
                RowCompatibility(Head(RuleRows(reactivity, NormalizePair(group1_id, group2_id)))))

\* for g_a in groups_a: for g_b in groups_b, as the list of the pairs visited
Cartesian(groups_a, groups_b) ==
    List([k \in 1..(Len(groups_a) * Len(groups_b)) |->
        <<groups_a[((k - 1) \div Len(groups_b)) + 1], groups_b[((k - 1) % Len(groups_b)) + 1]>>])

RECURSIVE RuleLoop(_, _, _, _)
RECURSIVE RuleLoopStep(_, _, _, _)
\* the cartesian loop of _analyze_pair over the pairs still to visit
RuleLoop(cache, reactivity, pairs, max_priority) ==
    IF pairs = <<>>
    THEN [cache |-> cache, max_priority |-> max_priority]
    ELSE RuleLoopStep(GetRule(cache, reactivity, Head(pairs)[1], Head(pairs)[2]),
                      reactivity, Tail(pairs), max_priority)

\* if rule_priority > max_priority: max_priority = rule_priority
RuleLoopStep(rule, reactivity, rest, max_priority) ==
    RuleLoop(rule.cache, reactivity, rest, Max2(max_priority, PriorityOf(rule.compatibility)))

\* the final result of _analyze_pair after its loop
PairVerdict(loop) ==
    [cache |-> loop.cache, compatibility |-> FirstWithPriority(loop.max_priority)]

\* _analyze_pair; the answer is [cache, compatibility]
AnalyzePair(cache, reactivity, groups_a, groups_b) ==
    IF groups_a = <<>> \/ groups_b = <<>>
    THEN [cache |-> cache, compatibility |-> "NO_DATA"]
    ELSE PairVerdict(RuleLoop(cache, reactivity, Cartesian(groups_a, groups_b), 1))

\* SELECT react_id FROM mm_chemical_react WHERE chem_id = ?
ReactRows(react, chemical_id) ==
    IF chemical_id \in DOMAIN react THEN react[chemical_id] ELSE <<>>

\* _get_chemical_groups: the group cache after the call
GetChemicalGroups(group_cache, react, chemical_id) ==
    IF chemical_id \in DOMAIN group_cache
    THEN group_cache
    ELSE MapPut(group_cache, chemical_id, ReactRows(react, chemical_id))

RECURSIVE GroupsLoop(_, _, _)
\* for chem_id in chemical_ids: chem_groups[chem_id] = self._get_chemical_groups(chem_id)
GroupsLoop(group_cache, react, ids) ==
    IF ids = <<>>
    THEN group_cache
    ELSE GroupsLoop(GetChemicalGroups(group_cache, react, Head(ids)), react, Tail(ids))

\* the cells with i < j, in the order the matrix loop reaches them
UpperCells(n) ==
    SelectSeq(List([k \in 1..(n * n) |-> <<((k - 1) \div n) + 1, ((k - 1) % n) + 1>>]),
              LAMBDA c : c[1] < c[2])

RECURSIVE MatrixLoop(_, _, _, _, _, _)
RECURSIVE MatrixLoopStep(_, _, _, _, _, _, _)
\* the matrix loop of analyze over the upper cells still to visit; matrix maps
\* a cell <<i, j>> to its compatibility
MatrixLoop(cache, reactivity, groups, ids, cells, matrix) ==
    IF cells = <<>>
    THEN [cache |-> cache, matrix |-> matrix]
    ELSE MatrixLoopStep(
            AnalyzePair(cache, reactivity, groups[ids[Head(cells)[1]]], groups[ids[Head(cells)[2]]]),
            reactivity, groups, ids, Head(cells), Tail(cells), matrix)

\* result.matrix[i][j] = pair_result; result.matrix[j][i] = pair_result
MatrixLoopStep(pair, reactivity, groups, ids, cell, rest, matrix) ==
    MatrixLoop(pair.cache, reactivity, groups, ids, rest,
               MapPut(MapPut(matrix, cell, pair.compatibility), <<cell[2], cell[1]>>, pair.compatibility))

\* the diagonal cells: a chemical against itself
Diagonal(ids, special) ==
    [c \in {<<i, i>> : i \in 1..Len(ids)} |->
        IF ids[c[1]] \in special THEN "CAUTION" ELSE "COMPATIBLE"]

\* overall_max_priority after the matrix loop
OverallMaxPriority(matrix) ==
    CHOOSE p \in {1} \cup {PriorityOf(matrix[c]) : c \in DOMAIN matrix} :
        \A c \in DOMAIN matrix : PriorityOf(matrix[c]) <= p

RECURSIVE WaterGroups(_, _, _)
RECURSIVE WaterGroupsStep(_, _, _)
\* for g in groups: water_rule = self._get_rule(g, WATER_GROUP_ID), until one
\* warns; the answer is [cache, warned]
WaterGroups(cache, reactivity, groups) ==
    IF groups = <<>>
    THEN [cache |-> cache, warned |-> FALSE]
    ELSE WaterGroupsStep(GetRule(cache, reactivity, Head(groups), WATER_GROUP_ID),
                         reactivity, Tail(groups))

WaterGroupsStep(rule, reactivity, rest) ==
    IF rule.compatibility \in {"INCOMPATIBLE", "CAUTION"}
    THEN [cache |-> rule.cache, warned |-> TRUE]
    ELSE WaterGroups(rule.cache, reactivity, rest)

RECURSIVE WaterLoop(_, _, _, _, _)
RECURSIVE WaterLoopStep(_, _, _, _, _, _)
\* the water check of analyze over the chemicals still to visit
WaterLoop(cache, reactivity, groups, ids, water) ==
    IF ids = <<>>
    THEN [cache |-> cache, water |-> water]
    ELSE WaterLoopStep(WaterGroups(cache, reactivity, groups[Head(ids)]),
                       reactivity, groups, Head(ids), Tail(ids), water)

WaterLoopStep(w, reactivity, groups, chem_id, rest, water) ==
    WaterLoop(w.cache, reactivity, groups, rest,
              IF w.warned THEN water \cup {chem_id} ELSE water)

\* the engine after the matrix loop m and the water check
Analyzed(e, ids, groups, m, w) ==
    [e EXCEPT !.rule_cache = w.cache,
              !.group_cache = groups,
              !.audit_log = @ + 1,
              !.out = [raised |-> FALSE, ids |-> ids,
                       matrix |-> m.matrix @@ Diagonal(ids, e.special),
                       overall |-> FirstWithPriority(OverallMaxPriority(m.matrix)),
                       water |-> w.water]]

\* analyze after the groups are read: the matrix loop, then the water check
AnalyzeWith(e, ids, include_water_check, groups, m) ==
    Analyzed(e, ids, groups, m,
             IF include_water_check
             THEN WaterLoop(m.cache, e.reactivity, groups, ids, {})
             ELSE [cache |-> m.cache, water |-> {}])

\* analyze after the groups are read
AnalyzeGroups(e, ids, include_water_check, groups) ==
    AnalyzeWith(e, ids, include_water_check, groups,
                MatrixLoop(e.rule_cache, e.reactivity, groups, ids, UpperCells(Len(ids)), <<>>))

\* ReactivityEngine.analyze(chemical_ids, include_water_check): the engine after it
Analyze(e, chemical_ids, include_water_check) ==
    IF Len(chemical_ids) < 2
    THEN [e EXCEPT !.out = [NoAnalysis EXCEPT !.raised = TRUE, !.ids = chemical_ids]]
    ELSE AnalyzeGroups(e, chemical_ids, include_water_check,
                       GroupsLoop(e.group_cache, e.react, chemical_ids))

\* --- the databases and the requests of SpecRx

MaxRules == 2

MaxAnalyses == 2

RxChemicals == {1, 2, 3}

\* group assignments: chemical 1 may have no group, chemical 2 shares group
\* 1 with it, chemical 3 may
ReactTables ==
    {(1 :> g1) @@ (2 :> <<2, 1>>) @@ (3 :> g3) : g1 \in {<<>>, <<1>>}, g3 \in {<<3>>, <<1, 3>>}}

\* candidate rows of the reactivity table, in row order: both orders of a
\* pair, two rows for one pair, a NULL and an unknown pair_compatibility, and
\* one rule with water
RulePool ==
    << [react1 |-> 1, react2 |-> 2, pair_compatibility |-> "Compatible"],
       [react1 |-> 2, react2 |-> 1, pair_compatibility |-> "Incompatible"],
       [react1 |-> 1, react2 |-> 3, pair_compatibility |-> "C"],
       [react1 |-> 3, react2 |-> 2, pair_compatibility |-> "Caution"],
       [react1 |-> 2, react2 |-> 3, pair_compatibility |-> ""],
       [react1 |-> 3, react2 |-> 1, pair_compatibility |-> "Unknown"],
       [react1 |-> 104, react2 |-> 1, pair_compatibility |-> "I-C"] >>

\* the rows of RulePool picked by a set of positions, in row order
PickRows(S) == SelectSeq(List([i \in 1..Len(RulePool) |-> IF i \in S THEN RulePool[i] ELSE <<>>]), LAMBDA r : r # <<>>)

ReactivityTables ==
    {PickRows(S) : S \in {T \in SUBSET (1..Len(RulePool)) : Cardinality(T) <= MaxRules}}

\* the requests: every ordered pair of chemicals, one chemical twice, two
\* orders of the three chemicals, and one chemical alone
AnalyzeRequests ==
    {<<a, b>> \in RxChemicals \X RxChemicals : a # b}
    \cup {<<2, 2>>, <<1, 2, 3>>, <<3, 2, 1>>, <<1>>}

InitRx ==
    /\ db = <<>>
    /\ FreshMatcher
    /\ sem = SemIdle
    /\ tables = AllTables
    /\ call = NoCall
    /\ EmptyTables
    /\ NoThreads
    /\ \E react \in ReactTables, reactivity \in ReactivityTables :
        rx = [RxIdle EXCEPT !.react = react, !.reactivity = reactivity, !.special = {3}]

\* POST /api/analyze: reactivity_engine.analyze(chemical_ids, include_water_check)
AnalyzeCall ==
    /\ rx.audit_log < MaxAnalyses
    /\ \E ids \in AnalyzeRequests, include_water_check \in BOOLEAN :
        rx' = Analyze(rx, ids, include_water_check)
    /\ UNCHANGED <<mvars, sem, tables, call, pvars, cvars>>

\* ReactivityEngine.clear_cache()
ClearCache ==
    /\ rx.rule_cache # <<>> \/ rx.group_cache # <<>>
    /\ rx' = [rx EXCEPT !.rule_cache = <<>>, !.group_cache = <<>>]
    /\ UNCHANGED <<mvars, sem, tables, call, pvars, cvars>>

NextRx == AnalyzeCall \/ ClearCache

SpecRx == InitRx /\ [][NextRx]_vars

\* ------------------------------------------------------------------------
\*  match() on two records of one family: the same base name before the
\*  comma, one CAS number, a synonym on one of them
\* ------------------------------------------------------------------------

FamStore ==
    <<[id |-> 3, name |-> Nm("U", <<"phosphorus", ",", "white">>),
       syns |-> <<>>, formulas |-> <<>>,
       cas |-> <<"7723-14-0">>, un |-> <<1381>>],
      [id |-> 4, name |-> Nm("U", <<"phosphorus", ",", "amorphous">>),
       syns |-> <<Nm("T", <<"red", "phosphorus">>)>>, formulas |-> <<>>,
       cas |-> <<"7723-14-0">>, un |-> <<1338>>]>>

\* the rows: a name, alone or with the CAS of the family or the UN number of
\* PHOSPHORUS, WHITE
FamRows ==
    {[EmptyRow EXCEPT !.name = n, !.cas = c.cas, !.cas_valid = c.cas_valid, !.un = u] :
        n \in {Nm("T", <<"white", "phosphorus">>), Nm("U", <<"phosphorus", ",", "white">>)},
        c \in {[cas |-> CasField("empty", "", NullName), cas_valid |-> FALSE],
               [cas |-> CasField("cas", "7723-14-0", NullName), cas_valid |-> TRUE]},
        u \in {UnField("none", 0), UnField("int", 1381)}}

\* the answers of fuzz.WRatio for two different strings, in tenths of a
\* percent: below the cut at 70, a partial match, a match of the sorted tokens
FamScores == {600, 792, 950}

InitFam ==
    /\ db = FamStore
    /\ FreshMatcher
    /\ sem = SemIdle
    /\ Untouched
    /\ EmptyTables
    /\ NoThreads

\* match(cleaned) on a fresh matcher, with any of the rows and any scorer
MatchFam ==
    /\ calls = 0
    /\ \E r \in FamRows : \E scr \in [Corpus(FamStore) -> FamScores] : Match(r, scr)
    /\ UNCHANGED <<svars, pvars, cvars>>

NextFam == MatchFam

SpecFam == InitFam /\ [][NextFam]_vars

\* ------------------------------------------------------------------------
\*  match() on records that share one CAS number and one UN number
\* ------------------------------------------------------------------------

\* records of one CAS and UN number: four names of different lengths, two of
\* them equally long, and a record whose name column is NULL
KeyPool ==
    {[id |-> 3, name |-> Nm("U", <<"phosphorus", ",", "white">>),
      syns |-> <<>>, formulas |-> <<>>, cas |-> <<"7723-14-0">>, un |-> <<1381>>],
     [id |-> 4, name |-> Nm("U", <<"phosphorus", ",", "amorphous">>),
      syns |-> <<>>, formulas |-> <<>>, cas |-> <<"7723-14-0">>, un |-> <<1381>>],
     [id |-> 7, name |-> Nm("U", <<"phosphorus">>),
      syns |-> <<>>, formulas |-> <<>>, cas |-> <<"7723-14-0">>, un |-> <<1381>>],
     [id |-> 8, name |-> Nm("U", <<"phosphorus", ",", "black">>),
      syns |-> <<>>, formulas |-> <<>>, cas |-> <<"7723-14-0">>, un |-> <<1381>>],
     [id |-> 9, name |-> NullName,
      syns |-> <<>>, formulas |-> <<>>, cas |-> <<"7723-14-0">>, un |-> <<1381>>]}

KeyStores == {InIdOrder(S) : S \in SUBSET KeyPool \ {{}}}

\* the rows: the shared CAS in the cas column or found by the scan, the
\* shared UN number, or both
KeyRows ==
    {[EmptyRow EXCEPT !.cas = c.cas, !.cas_valid = c.cas_valid, !.cas_scanned = s, !.un = u] :
        c \in {[cas |-> CasField("empty", "", NullName), cas_valid |-> FALSE],
               [cas |-> CasField("cas", "7723-14-0", NullName), cas_valid |-> TRUE]},
        s \in {"", "7723-14-0"},
        u \in {UnField("none", 0), UnField("int", 1381)}}
    \ {EmptyRow}

InitKey ==
    /\ db \in KeyStores
    /\ FreshMatcher
    /\ sem = SemIdle
    /\ Untouched
    /\ EmptyTables
    /\ NoThreads

\* match(cleaned) on a fresh matcher, with any of the rows (no name: the
\* scorer is not asked)
MatchKey ==
    /\ calls = 0
    /\ \E r \in KeyRows : \E scr \in Scorers(db, r) : Match(r, scr)
    /\ UNCHANGED <<svars, pvars, cvars>>

NextKey == MatchKey

SpecKey == InitKey /\ [][NextKey]_vars

\* ------------------------------------------------------------------------
\*  validate_row's CAS steps, followed by match() on the cleaned row
\* ------------------------------------------------------------------------

\* An uploaded row is [cas, notes]: its cas column (empty, a CAS-shaped string
\* or other text) and one other column (empty or a CAS-shaped string); the
\* name, formula and UN columns are empty.
RawRow(cas, notes) == [cas |-> cas, notes |-> notes]

\* the digits of a CAS-shaped string as characters
CasChars(c) == [i \in 1..Len(CasDigitsOf[c]) |-> DigitStr(CasDigitsOf[c][i])]

\* validate_cas's verdict on a column value that is empty or CAS-shaped
CasColumnValid(c) == IsCasShaped(c) /\ ChecksumHolds(CasChars(c))

\* scan_cas_from_all_columns(row): the cas column when it validates, else the
\* first valid CAS of the other columns, else None
ScanCasFromAllColumns(raw) ==
    IF raw.cas.k = "cas" /\ CasColumnValid(raw.cas.s) THEN raw.cas.s
    ELSE IF CasColumnValid(raw.notes) THEN raw.notes
    ELSE ""

\* the cas column as validate_row cleans it: validated, else reconstructed
\* from its digits, else None
CleanCasColumn(cas) ==
    IF cas.k = "cas" /\ CasColumnValid(cas.s) THEN [cas |-> cas, cas_valid |-> TRUE]
    ELSE IF cas.k = "cas" /\ ReconstructCasFromDigits(CasChars(cas.s)) # NoneStr
    THEN [cas |-> cas, cas_valid |-> TRUE]
    ELSE [cas |-> CasField("empty", "", NullName), cas_valid |-> FALSE]

\* "if not cleaned['cas_valid'] and cas_scanned: cleaned['cas'] = cas_scanned"
Recovered(col, cas_scanned) ==
    IF ~col.cas_valid /\ cas_scanned # ""
    THEN [cas |-> CasField("cas", cas_scanned, NullName), cas_valid |-> TRUE]
    ELSE col

\* the cas, cas_valid and cas_scanned entries of validate_row(row)['cleaned']
ValidateRow(raw) ==
    [EmptyRow EXCEPT !.cas = Recovered(CleanCasColumn(raw.cas), ScanCasFromAllColumns(raw)).cas,
                     !.cas_valid = Recovered(CleanCasColumn(raw.cas), ScanCasFromAllColumns(raw)).cas_valid,
                     !.cas_scanned = ScanCasFromAllColumns(raw)]

\* the uploaded rows: the cas column empty, valid, failing the checksum or
\* holding a word; the other column empty or holding a CAS, valid or not
RawRows ==
    {RawRow(c, n) :
        c \in {CasField("empty", "", NullName), CasField("cas", "67-64-1", NullName),
               CasField("cas", "67-64-2", NullName),
               CasField("text", "", Nm("T", <<"acetone">>))},
        n \in {"", "67-64-1", "67-64-2", "7723-14-0"}}

\* the row loop's two calls for one row: validate_row, then match on the
\* cleaned row
CleanThenMatch ==
    /\ calls = 0
    /\ \E raw \in RawRows :
          /\ Match(ValidateRow(raw), [c \in Corpus(db) |-> 600])
          /\ call' = [fn |-> "validate_row", arg |-> raw, out |-> ValidateRow(raw)]
    /\ UNCHANGED <<sem, tables, rx, pvars, cvars>>

NextClean == CleanThenMatch

SpecClean == Init /\ [][NextClean]_vars

\* ------------------------------------------------------------------------
\*  match() on rows whose fields are swapped
\* ------------------------------------------------------------------------

\* the rows: a name with or without a CAS in it (valid or failing the
\* checksum), the cas field empty, a CAS, a word of three letters or a name
SwapRows ==
    {[EmptyRow EXCEPT !.name = n, !.cas = c.cas, !.cas_valid = c.cas_valid] :
        n \in {NullName, Nm("T", <<"phosphorus">>), Nm("T", <<"phosphorus", "7723-14-0">>),
               Nm("T", <<"7723-14-0">>), Nm("T", <<"phosphorus", "67-64-2">>)},
        c \in {[cas |-> CasField("empty", "", NullName), cas_valid |-> FALSE],
               [cas |-> CasField("cas", "7723-14-0", NullName), cas_valid |-> TRUE],
               [cas |-> CasField("text", "", Nm("T", <<"n/a">>)), cas_valid |-> FALSE],
               [cas |-> CasField("text", "", Nm("T", <<"phosphorus", ",", "white">>)), cas_valid |-> FALSE]}}
    \ {EmptyRow}

\* match(cleaned) on a fresh matcher over records that share one CAS
MatchSwap ==
    /\ calls = 0
    /\ \E r \in SwapRows : \E scr \in PipeScorers(db) : Match(r, scr)
    /\ UNCHANGED <<svars, pvars, cvars>>

NextSwap == MatchSwap

SpecSwap == InitKey /\ [][NextSwap]_vars

\* ------------------------------------------------------------------------
\*  The three CAS checksum functions on the same strings
\* ------------------------------------------------------------------------

\* _validate_cas_checksum(cas) of match.py on a string of characters
ValidateCasChecksumChars(cas) ==
    /\ IsDigit(Without(cas, {"-"}))
    /\ Len(Without(cas, {"-"})) >= 5
    /\ ChecksumHolds(Without(cas, {"-"}))

\* is_plausible_cas(s) for one of the strings around the CAS form
PlausibleCall ==
    /\ call.fn = ""
    /\ \E s \in CasStrings :
          call' = [fn |-> "is_plausible_cas", arg |-> s, out |-> IsPlausibleCas(s)]
    /\ UNCHANGED <<mvars, sem, tables, rx, pvars, cvars>>

\* _validate_cas_checksum(s) for one of these strings
ChecksumCall ==
    /\ call.fn = ""
    /\ \E s \in CasStrings :
          call' = [fn |-> "_validate_cas_checksum", arg |-> s,
                   out |-> ValidateCasChecksumChars(s)]
    /\ UNCHANGED <<mvars, sem, tables, rx, pvars, cvars>>

NextAgree == ValidateCasCall \/ PlausibleCall \/ ChecksumCall

SpecAgree == InitCas /\ [][NextAgree]_vars

\* ------------------------------------------------------------------------
\*  Properties of match()
\* ------------------------------------------------------------------------

Returned == result.out = "returned"

\* the signals and the fusion of the last call, recomputed from the state
LastSignals == GatherSignals(idx, row, sc)

LastFusion == Fuse(idx, row, sc, LastSignals)

SuggestedIds == {result.suggestions[i].chemical_id : i \in 1..Len(result.suggestions)}

SignalIds == {result.signals[i].chemical_id : i \in 1..Len(result.signals)}

\* C1 (anti-hallucination): the chemical_id of a returned result is None or the
\* id of a record of the reference store the index was built from, and so is
\* the chemical_id of every suggestion.
C1_AntiHallucination ==
    Returned =>
        /\ result.chemical_id \in {NoneId} \cup RefIds(db)
        /\ SuggestedIds \subseteq {NoneId} \cup RefIds(db)

\* a result with a candidate and with a suggestion that no signal named (it
\* comes from _fuzzy_suggestions)
C1_Witness ==
    /\ Returned
    /\ result.chemical_id \in RefIds(db)
    /\ SuggestedIds \ SignalIds # {}

\* C2 (veto precedence in the resolver): when semantic_score of the row's name
\* against the name of the returned candidate vetoes the pair, the result of
\* match() has confidence 0.0 and a status other than MATCHED.
C2_VetoPrecedence ==
    (/\ Returned
     /\ result.chemical_id # NoneId
     /\ Truthy(OrEmpty(row.name))
     /\ SemanticScore(OrEmpty(row.name), result.chemical_name).vetoed)
    => (result.confidence = 0 /\ result.match_status # "MATCHED")

\* the three ways a candidate name is hazardous
HazardousName(n) ==
    \/ \E i \in 1..Len(ClassifyName(n)) : ClassifyName(n)[i].role = "HAZARD"
    \/ \E i \in 1..Len(ClassifyName(n)) :
          /\ ClassifyName(n)[i].role = "SALT"
          /\ ClassifyName(n)[i].normalized \in DANGEROUS_SALT_TOKENS
    \/ \E k \in 1..Len(DANGEROUS_NAME_PATTERNS) : PatternIn(DANGEROUS_NAME_PATTERNS[k], n)

SafetyTexts(n) == Texts(TokensOfRole(ClassifyName(n), "SAFETY"))

\* C3 (veto rule 1): for an input name with a SAFETY-role token and a hazardous
\* candidate name, semantic_score returns vetoed with score 0, base_overlap 0,
\* salt_overlap 0 and the reason of the safety veto, which quotes the safety
\* tokens of the input and at least one hazard of the candidate.
C3_SafetyVeto ==
    (/\ sem.called
     /\ SafetyTexts(sem.input_name) # <<>>
     /\ HazardousName(sem.candidate_name))
    => (/\ sem.out.vetoed
        /\ sem.out.score = 0
        /\ sem.out.base_overlap = 0
        /\ sem.out.salt_overlap = 0
        /\ sem.out.veto_reason.rule = "Safety veto"
        /\ sem.out.veto_reason.about = SafetyTexts(sem.input_name)
        /\ sem.out.veto_reason.hazard # <<>>)

\* 'Sodium Wax' against 'SODIUM CYANIDE': the input has a safety context, the candidate is hazardous by a dangerous salt only, rule 1 vetoes
C3_Witness ==
    /\ sem.called
    /\ sem.input_name = Nm("T", <<"sodium", "wax">>)
    /\ sem.candidate_name = Nm("U", <<"sodium", "cyanide">>)
    /\ sem.out.vetoed
    /\ sem.out.veto_reason.rule = "Safety veto"
    /\ sem.out.veto_reason.hazard = <<Nm("U", <<"cyanide">>)>>

\* C4 (conflict cap): a returned result with a recorded conflict has
\* confidence <= 0.84 and is not MATCHED.
C4_ConflictCap ==
    (Returned /\ result.conflicts # <<>>) =>
        /\ result.confidence <= 8400
        /\ result.match_status # "MATCHED"

\* a conflict on a row whose confidence, after the agreement bonus, was above 0.84
C4_Witness ==
    /\ Returned
    /\ result.conflicts # <<>>
    /\ LastFusion.agreeing >= 2
    /\ LastFusion.boosted > 840 * LastFusion.tmax

\* C5 (confidence bounds): 0.0 <= confidence <= 1.0 in every returned result.
C5_ConfidenceBounds ==
    Returned => (0 <= result.confidence /\ result.confidence <= 10000)

\* a result whose calibrated confidence plus agreement bonus went over 1.0
C5_Witness ==
    /\ Returned
    /\ result.signals # <<>>
    /\ LastFusion.agreeing >= 2
    /\ LastFusion.calibrated + 120 * (LastFusion.agreeing - 1) * LastFusion.tmax
           > 1000 * LastFusion.tmax
    /\ result.confidence = 10000

\* C6 (status thresholds): in a returned result the status is MATCHED iff its
\* confidence is >= 0.85, REVIEW_REQUIRED iff 0.60 <= confidence < 0.85,
\* UNIDENTIFIED iff confidence < 0.60.
C6_StatusThresholds ==
    Returned =>
        /\ result.match_status = "MATCHED" <=> result.confidence >= 8500
        /\ result.match_status = "REVIEW_REQUIRED"
               <=> (6000 <= result.confidence /\ result.confidence < 8500)
        /\ result.match_status = "UNIDENTIFIED" <=> result.confidence < 6000

\* the candidates the CAS signals of the result name
CasSourcedIds ==
    {result.signals[i].chemical_id :
        i \in {j \in 1..Len(result.signals) : Category(result.signals[j].source) = "cas"}}

\* the candidates the name signals of the result name (exact, synonym,
\* normalized or fuzzy)
NameSourcedIds ==
    {result.signals[i].chemical_id :
        i \in {j \in 1..Len(result.signals) :
                  Category(result.signals[j].source) \in {"name", "synonym"}}}

\* C7 (conflict scenario): when the CAS of the row resolves to a chemical and
\* its name matches only other chemicals, the result has a conflict,
\* confidence <= 0.84 and status REVIEW_REQUIRED.
C7_ConflictScenario ==
    (/\ Returned
     /\ CasSourcedIds # {}
     /\ NameSourcedIds # {}
     /\ CasSourcedIds \cap NameSourcedIds = {})
    => /\ result.conflicts # <<>>
       /\ result.confidence <= 8400
       /\ result.match_status = "REVIEW_REQUIRED"

\* C8 (no MATCHED without an identity): a result of match() with status MATCHED
\* has a chemical_id and a chemical_name that are not None, and whatever
\* pipeline runs and review requests have happened, every inventory_staging row
\* with match_status MATCHED has a chemical_id that is not NULL.
C8_MatchedHasIdentity ==
    /\ (result.out = "returned" /\ result.match_status = "MATCHED")
         => (result.chemical_id # NoneId /\ result.chemical_name # NullName)
    /\ \A i \in 1..Len(staging) :
           staging[i].match_status = "MATCHED" => staging[i].chemical_id # NoneId

\* a run stored a row that match() resolved, and a review request resolved
\* another one by hand
C8_Witness ==
    /\ result.out = "returned"
    /\ result.match_status = "MATCHED"
    /\ \E i \in 1..Len(staging) :
          staging[i].match_status = "MATCHED" /\ staging[i].match_method = "manual_review"
    /\ \E i \in 1..Len(staging) :
          /\ staging[i].match_status = "MATCHED"
          /\ staging[i].match_method \notin {"manual_review", "manual_confirm"}

\* C9 (determinism, idempotence): a call of match() with the row of the call
\* before it, on the same matcher, returns the same result in every field and
\* leaves the row and the loaded index as they were.
C9_Determinism ==
    [][calls > 0 => (result' = result /\ idx' = idx /\ row' = row)]_vars

\* the row was matched MaxCalls times (the first call loaded the index, the
\* later ones did not) and the result carries signals
C9_Witness ==
    /\ calls = MaxCalls
    /\ Returned
    /\ result.chemical_id # NoneId
    /\ Len(result.signals) >= 2


\* a thread is inside the loading loops of _ensure_caches
Loading(t) == pc[t] \in {"cas", "un", "names", "set"}

\* C10 (shared read-only index under concurrency): whatever the interleaving of
\* the threads' match() calls on one shared matcher, once the index is loaded
\* and no thread is loading, it is the index of one load (every record once
\* under each key and in each fuzzy corpus); no thread reads the index while
\* another is between two of its loading loops; and every call returns what
\* it returns when run alone on a fresh matcher.
C10_SharedIndex ==
    /\ (loaded /\ \A t \in DOMAIN pc : ~Loading(t)) => idx = BuildIndex(EmptyIndex, db)
    /\ \A t \in DOMAIN pc : \A u \in DOMAIN pc :
           ~(pc[t] = "read" /\ pc[u] \in {"un", "names"})
    /\ \A t \in DOMAIN pc :
           pc[t] = "done" =>
               tres[t] = MatchLoaded(BuildIndex(EmptyIndex, db), trow[t], ConcScorer)

\* ------------------------------------------------------------------------
\*  Properties of construction and of malformed fields
\* ------------------------------------------------------------------------

\* C11 (fail-closed construction): a matcher exists only when chemicals.db
\* could be loaded, and then its index is the whole index of chemicals.db; no
\* matcher exists whose index is empty or partially loaded.
C11_FailClosed ==
    MatcherExists =>
        /\ MatcherTables \subseteq tables
        /\ loaded
        /\ idx = BuildIndex(EmptyIndex, db)

\* C12 (missing or malformed fields are not errors): match() on a loaded index,
\* with a row whose fields are all absent, None, empty or malformed, raises no
\* exception and no field contributes a signal: it returns chemical_id None,
\* chemical_name None, match_method 'unmatched', confidence 0.0, status
\* UNIDENTIFIED, no suggestions and no signals.
C12_MalformedFields ==
    (calls > 0 /\ row \in MalformedRows) =>
        /\ result.out = "returned"
        /\ result.chemical_id = NoneId
        /\ result.chemical_name = NullName
        /\ result.match_method = "unmatched"
        /\ result.confidence = 0
        /\ result.match_status = "UNIDENTIFIED"
        /\ result.suggestions = <<>>
        /\ result.signals = <<>>

\* ------------------------------------------------------------------------
\*  Properties of the CAS functions
\* ------------------------------------------------------------------------

\* t is digits, a dash, digits, a dash, digits, with first, second and third
\* the lengths of the three runs
HasForm(t, first, second, third) ==
    /\ Len(t) = first + second + third + 2
    /\ IsDigit(SubSeq(t, 1, first))
    /\ t[first + 1] = "-"
    /\ IsDigit(SubSeq(t, first + 2, first + second + 1))
    /\ t[first + second + 2] = "-"
    /\ IsDigit(SubSeq(t, first + second + 3, Len(t)))

\* 2 to 7 digits, a dash, 2 digits, a dash, 1 digit
HasCasForm(t) == \E first \in 2..7 : HasForm(t, first, 2, 1)

\* the digits of t before the last one, the rightmost first
BodyFromRight(t) ==
    [i \in 1..(Len(Without(t, {"-"})) - 1) |->
        DigitValue[Without(t, {"-"})[Len(Without(t, {"-"})) - i]]]

\* the sum of position times digit over the digits before the check digit,
\* read from the right, modulo 10, is the check digit
CheckDigitMatches(t) ==
    SumSeq([i \in DOMAIN BodyFromRight(t) |-> i * BodyFromRight(t)[i]]) % 10
        = DigitValue[t[Len(t)]]

\* s with its last character replaced by c
WithLast(s, c) == SubSeq(s, 1, Len(s) - 1) \o <<c>>

\* C13 (CAS checksum): validate_cas(s) reports valid exactly when s, trimmed
\* and with its blanks removed, is 2 to 7 digits, a dash, 2 digits, a dash and
\* 1 digit whose weighted sum (position times digit over the digits before the
\* check digit, from the right, modulo 10) is the check digit; and a valid CAS
\* with its check digit replaced by any other digit is reported invalid.
C13_CasChecksum ==
    call.fn = "validate_cas" =>
        /\ call.out.valid =
              (/\ HasCasForm(Without(Strip(call.arg), {" "}))
               /\ CheckDigitMatches(Without(Strip(call.arg), {" "})))
        /\ call.out.valid =>
              \A c \in DigitChars \ {call.out.cas[Len(call.out.cas)]} :
                  ~ValidateCas(WithLast(call.out.cas, c)).valid

\* validate_cas accepted a string with a blank inside and blanks around it
C13_Witness ==
    /\ call.fn = "validate_cas"
    /\ call.out.valid
    /\ call.out.cas = <<"6", "7", "-", "6", "4", "-", "1">>
    /\ Len(call.arg) > Len(call.out.cas) + 1

\* C14 (product-code rejection): is_likely_product_code(raw) is True exactly
\* when raw without its whitespace and dashes is digits only and has more than
\* 10 digits, or 8 to 10 digits that start with 111, 112, 110, 100, 200 or
\* 300; and reconstruct_cas_from_digits returns None for every digit string
\* that is_likely_product_code flags.
C14_ProductCode ==
    /\ call.fn = "is_likely_product_code" =>
          call.out =
             (/\ IsDigit(Without(call.arg, {" ", "\t", "-"}))
              /\ \/ Len(Without(call.arg, {" ", "\t", "-"})) > 10
                 \/ /\ Len(Without(call.arg, {" ", "\t", "-"})) \in 8..10
                    /\ \E p \in ProductPrefixes :
                          \A i \in 1..3 : Without(call.arg, {" ", "\t", "-"})[i] = p[i])
    /\ (/\ call.fn = "reconstruct_cas_from_digits"
        /\ IsDigit(call.arg)
        /\ IsLikelyProductCode(call.arg))
          => call.out = NoneStr

\* reconstruct_cas_from_digits returned None for a flagged string of 8 digits
\* whose reconstruction 11100-00-8 passes the checksum
C14_Witness ==
    /\ call.fn = "reconstruct_cas_from_digits"
    /\ call.arg = <<"1", "1", "1", "0", "0", "0", "0", "8">>
    /\ IsLikelyProductCode(call.arg)
    /\ ValidateCas(Candidate(call.arg)).valid
    /\ call.out = NoneStr

\* ------------------------------------------------------------------------
\*  Properties of the token roles and of the veto
\* ------------------------------------------------------------------------

\* the rules of the stated order, each with whether it matches the word w
PriorityRules(w) ==
    <<<<"CONC", IsConc(w)>>,
      <<"NOISE", IsNumber(w) \/ Len(w) <= 1 \/ w \in NOISE_WORDS>>,
      <<"GRADE", w \in GRADE_TOKENS>>,
      <<"FORM", w \in FORM_TOKENS>>,
      <<"SALT", w \in SALT_TOKENS>>,
      <<"SAFETY", w \in SAFETY_TOKENS>>,
      <<"HAZARD", w \in HAZARD_TOKENS>>>>

\* the role of the first rule that matches, BASE when none does
RECURSIVE FirstRole(_)
FirstRole(rules) ==
    IF rules = <<>> THEN "BASE"
    ELSE IF Head(rules)[2] THEN Head(rules)[1]
    ELSE FirstRole(Tail(rules))

C16_SafetyWords ==
    (/\ sem.called
     /\ \E i \in 1..Len(sem.input_name.at) : sem.input_name.at[i] \in SAFETY_TOKENS
     /\ HazardousName(sem.candidate_name))
    => sem.out.vetoed

\* C17 (salt versus identity for 'Zinc Gluconate'): classify_token gives
\* 'Gluconate' the role BASE and 'Zinc' the role SALT; semantic_score of 'Zinc
\* Gluconate' against 'ZINC GLUCONATE' has base_overlap 1.0 and salt_overlap
\* 1.0, and against 'ZINC CHLORIDE' base_overlap 0 and a score of at most 0.35.
C17_ZincGluconate ==
    (sem.called /\ sem.input_name = Nm("T", <<"zinc", "gluconate">>)) =>
        /\ ClassifyName(sem.input_name)[1].role = "SALT"
        /\ ClassifyName(sem.input_name)[2].role = "BASE"
        /\ sem.candidate_name = Nm("U", <<"zinc", "gluconate">>) =>
              (sem.out.base_overlap = 1000 /\ sem.out.salt_overlap = 1000)
        /\ sem.candidate_name = Nm("U", <<"zinc", "chloride">>) =>
              (sem.out.base_overlap = 0 /\ sem.out.score * 100 <= 35 * SemScoreUnit)

\* the candidates of the last result that the exact name hit
ExactNameIds ==
    {result.signals[i].chemical_id :
        i \in {j \in 1..Len(result.signals) : result.signals[j].source = "name_exact"}}

\* the candidates of the last result that only fuzzy signals support
FuzzyOnlyIds ==
    {c \in SignalIds :
        \A i \in 1..Len(result.signals) :
            result.signals[i].chemical_id = c
                => result.signals[i].source \in {"name_fuzzy", "synonym_fuzzy"}}

\* the place of candidate c in the ranking the suggestions are made from
PlaceOf(c) == CHOOSE i \in 1..Len(result.suggestions) : result.suggestions[i].chemical_id = c

\* C18 (exact beats fuzzy): for a row with only the name 'Zinc Gluconate',
\* against a store with ZINC CHLORIDE and ZINC GLUCONATE, match() returns ZINC
\* GLUCONATE with confidence >= 0.85 and status MATCHED whatever the scorer
\* says of ZINC CHLORIDE; and in every result a candidate the exact name hit
\* is ranked before every candidate that only fuzzy signals support, and the
\* latter is never the one returned.
C18_ExactBeatsFuzzy ==
    (calls > 0 /\ db = ZincStore) =>
        /\ Returned
        /\ row = [EmptyRow EXCEPT !.name = Nm("T", <<"zinc", "gluconate">>)] =>
              /\ result.chemical_id = 6
              /\ result.chemical_name = Nm("U", <<"zinc", "gluconate">>)
              /\ result.confidence >= 8500
              /\ result.match_status = "MATCHED"
        /\ \A c \in ExactNameIds : \A f \in FuzzyOnlyIds :
              /\ result.chemical_id # f
              /\ PlaceOf(c) < PlaceOf(f)

\* 'Zinc Gluconate' alone, the scorer rating 'zinc chloride' 100: ZINC CHLORIDE
\* is a candidate by its fuzzy signal only and ZINC GLUCONATE is returned
C18_Witness ==
    /\ calls > 0
    /\ db = ZincStore
    /\ row = [EmptyRow EXCEPT !.name = Nm("T", <<"zinc", "gluconate">>)]
    /\ 2 \in FuzzyOnlyIds
    /\ \E i \in 1..Len(result.signals) :
          /\ result.signals[i].chemical_id = 2
          /\ result.signals[i].source = "name_fuzzy"
          /\ result.signals[i].score = 1000
    /\ result.chemical_id = 6

\* ------------------------------------------------------------------------
\*  Properties of the reactivity engine
\* ------------------------------------------------------------------------

\* mm_chemical_react holds no group for the chemical
NoGroups(chem) == ReactRows(rx.react, chem) = <<>>

\* the reactivity table holds no row for the two groups, in either order
RuleMissing(ga, gb) ==
    \A k \in 1..Len(rx.reactivity) :
        {rx.reactivity[k].react1, rx.reactivity[k].react2} # {ga, gb}

\* some pair of different groups, one from each chemical, has no rule
LacksRule(a, b) ==
    \E ga \in Range(ReactRows(rx.react, a)), gb \in Range(ReactRows(rx.react, b)) :
        ga # gb /\ RuleMissing(ga, gb)

\* C19: in every analysis returned, a cell of two distinct chemicals one of
\* which has no reactive group is NO_DATA, and a cell of two chemicals with
\* groups of which some pair of different groups has no rule in the
\* reactivity table is not COMPATIBLE, whichever of the two chemicals comes
\* first; the overall compatibility of an analysis with such a cell is not
\* COMPATIBLE; and a rule kept in the rule cache for a pair of different groups
\* without a rule is NO_DATA.
C19_FailSafe ==
    /\ \A key \in DOMAIN rx.rule_cache :
          (key[1] # key[2] /\ RuleMissing(key[1], key[2])) => rx.rule_cache[key] = "NO_DATA"
    /\ (rx.out.ids # <<>> /\ ~rx.out.raised) =>
          \A i, j \in 1..Len(rx.out.ids) :
              rx.out.ids[i] # rx.out.ids[j] =>
                  /\ rx.out.matrix[<<i, j>>] = rx.out.matrix[<<j, i>>]
                  /\ (NoGroups(rx.out.ids[i]) \/ NoGroups(rx.out.ids[j])) =>
                        /\ rx.out.matrix[<<i, j>>] = "NO_DATA"
                        /\ rx.out.overall # "COMPATIBLE"
                  /\ (/\ ~NoGroups(rx.out.ids[i])
                      /\ ~NoGroups(rx.out.ids[j])
                      /\ LacksRule(rx.out.ids[i], rx.out.ids[j])) =>
                        /\ rx.out.matrix[<<i, j>>] \in {"CAUTION", "INCOMPATIBLE"}
                        /\ rx.out.overall # "COMPATIBLE"

\* a second analysis on warm caches whose three chemicals give a cell without
\* groups (NO_DATA) and a cell with a missing rule (CAUTION), the missing rule
\* being in the rule cache
C19_Witness ==
    /\ rx.audit_log = 2
    /\ ~rx.out.raised
    /\ Len(rx.out.ids) = 3
    /\ rx.out.overall = "CAUTION"
    /\ \E i, j \in 1..3 :
          /\ i > j
          /\ NoGroups(rx.out.ids[i])
          /\ rx.out.matrix[<<i, j>>] = "NO_DATA"
    /\ \E i, j \in 1..3 :
          /\ i > j
          /\ ~NoGroups(rx.out.ids[i]) /\ ~NoGroups(rx.out.ids[j])
          /\ LacksRule(rx.out.ids[i], rx.out.ids[j])
          /\ rx.out.matrix[<<i, j>>] = "CAUTION"
          /\ \E key \in DOMAIN rx.rule_cache : rx.rule_cache[key] = "NO_DATA"

\* the four veto rules, stated on the tokens of the two names

\* rule 1: a SAFETY token in the input, a hazardous candidate
SafetyRule(input_name, candidate_name) ==
    /\ \E i \in 1..Len(ClassifyName(input_name)) : ClassifyName(input_name)[i].role = "SAFETY"
    /\ HazardousName(candidate_name)

\* rule 2: a BASE token of the input ends with a pharmaceutical stem, a
\* hazardous candidate
PharmaRule(input_name, candidate_name) ==
    /\ \E i \in 1..Len(ClassifyName(input_name)) :
          /\ ClassifyName(input_name)[i].role = "BASE"
          /\ \E suffix \in PHARMA_SUFFIXES : EndsWith(ClassifyName(input_name)[i].normalized, suffix)
    /\ HazardousName(candidate_name)

\* rule 3: the input has BASE tokens, none of them a BASE token of the
\* candidate, a hazardous candidate
BaseRule(input_name, candidate_name) ==
    /\ ExtractBaseTokens(ClassifyName(input_name)) # {}
    /\ ExtractBaseTokens(ClassifyName(input_name))
          \cap ExtractBaseTokens(ClassifyName(candidate_name)) = {}
    /\ HazardousName(candidate_name)

\* rule 4: the input has the token 'oil' and a token naming an edible-oil
\* source, the candidate text holds one of the markers
OilRule(input_name, candidate_name) ==
    /\ \E i \in 1..Len(ClassifyName(input_name)) : ClassifyName(input_name)[i].normalized = "oil"
    /\ \E i \in 1..Len(ClassifyName(input_name)) :
          ClassifyName(input_name)[i].normalized \in EDIBLE_OIL_CONTEXTS
    /\ FuelContext(candidate_name)

\* C20 (veto exactness): semantic_score returns vetoed = True exactly when one
\* of the four rules holds (SAFETY token, pharmaceutical stem or BASE mismatch
\* against a hazardous candidate; an oil token with an edible-oil source
\* against a candidate text with a fuel, explosive or mixture marker); a
\* candidate that is not hazardous is vetoed by rule 4 only; a result that is
\* not vetoed has veto_reason None.
C20_VetoExact ==
    sem.called =>
        /\ sem.out.vetoed <=>
              \/ SafetyRule(sem.input_name, sem.candidate_name)
              \/ PharmaRule(sem.input_name, sem.candidate_name)
              \/ BaseRule(sem.input_name, sem.candidate_name)
              \/ OilRule(sem.input_name, sem.candidate_name)
        /\ (sem.out.vetoed /\ ~HazardousName(sem.candidate_name)) =>
              OilRule(sem.input_name, sem.candidate_name)
        /\ ~sem.out.vetoed => sem.out.veto_reason = NoReason

\* ------------------------------------------------------------------------
\*  Properties of the fusion (PHASE 3 of match())
\* ------------------------------------------------------------------------

\* the weighted score of a signal of the result, in units of 1e-5
SigWeighted(s) == s.score * SignalWeight(s.source)

\* the source tags of the signals of a candidate
TagsOf(cid) ==
    {result.signals[i].source : i \in {j \in 1..Len(result.signals) :
        result.signals[j].chemical_id = cid}}

\* the best weighted score among the signals of a candidate with one tag
BestTagged(cid, tag) ==
    CHOOSE w \in {SigWeighted(result.signals[i]) : i \in {j \in 1..Len(result.signals) :
                     result.signals[j].chemical_id = cid /\ result.signals[j].source = tag}} :
        \A i \in 1..Len(result.signals) :
            (result.signals[i].chemical_id = cid /\ result.signals[i].source = tag)
                => SigWeighted(result.signals[i]) <= w

\* T: the raw total of a candidate
RawTotal(cid) == SumOver(TagsOf(cid), [tag \in TagsOf(cid) |-> BestTagged(cid, tag)])

\* the four input categories, a synonym signal being a signal of the name
FieldOf(source) == IF Category(source) = "synonym" THEN "name" ELSE Category(source)

\* the field-swap notes of the result name the kind
SwapNoted(kind) == \E i \in 1..Len(result.field_swaps) : result.field_swaps[i].kind = kind

\* the input gives the category: its field is not empty, or the other field
\* holds its value
FieldGiven(cat) ==
    CASE cat = "cas" -> row.cas.k # "empty" \/ row.cas_scanned # "" \/ SwapNoted("cas_in_name")
      [] cat = "name" -> Truthy(OrEmpty(row.name)) \/ SwapNoted("name_in_cas")
      [] cat = "formula" -> row.formula.el # <<>>
      [] cat = "un" -> row.un.k # "none"

\* the category has a signal of weighted score >= 0.50
FieldUseful(cat) ==
    \E i \in 1..Len(result.signals) :
        FieldOf(result.signals[i].source) = cat /\ SigWeighted(result.signals[i]) >= 50000

\* the top static weight of a category, in hundredths
TopWeight(cat) ==
    CASE cat = "cas" -> 100 [] cat = "name" -> 90 [] cat = "formula" -> 75 [] cat = "un" -> 80

Fields == {"cas", "name", "formula", "un"}

\* M: the top weights of the given categories with a useful signal or, when
\* there is none, of the given categories
MaxTotal ==
    IF \E cat \in Fields : FieldGiven(cat) /\ FieldUseful(cat)
    THEN SumOver({cat \in Fields : FieldGiven(cat) /\ FieldUseful(cat)}, [cat \in Fields |-> TopWeight(cat)])
    ELSE SumOver({cat \in Fields : FieldGiven(cat)}, [cat \in Fields |-> TopWeight(cat)])

\* the ranking and the confidence of the last call, recomputed from the state
LastRanking == Ranking(LastSignals)

LastConfidence == Confidence(LastSignals.sigs, LastRanking)

\* the statement of C21 for the ranking rk of the last call
CalibrationHolds(rk) ==
    /\ result.chemical_id = rk.best_id
    /\ \A cid \in SignalIds : RawTotal(cid) <= rk.best_score
    /\ rk.best_score = RawTotal(rk.best_id)
    /\ rk.tmax = MaxTotal
    /\ Confidence(LastSignals.sigs, rk).calibrated = Min2(RawTotal(rk.best_id), 1000 * MaxTotal)

SameFamily(n, best_name) ==
    /\ Truthy(best_name)
    /\ NameLen(BaseName(best_name)) >= 5
    /\ Truthy(n)
    /\ BaseName(n) = BaseName(best_name)

\* k: the categories among CAS, name, formula and UN with a signal of weighted
\* score >= 0.40 for the winner or for a candidate of its family
AgreeingFields ==
    {FieldOf(result.signals[i].source) : i \in {j \in 1..Len(result.signals) :
        /\ SigWeighted(result.signals[j]) >= 40000
        /\ \/ result.signals[j].chemical_id = result.chemical_id
           \/ SameFamily(result.signals[j].chemical_name, result.chemical_name)}}

\* only the name field of the row holds a value
NameAlone ==
    /\ Truthy(OrEmpty(row.name))
    /\ row.cas.k = "empty"
    /\ row.cas_scanned = ""
    /\ row.formula.el = <<>>
    /\ row.un.k = "none"
    /\ result.field_swaps = <<>>

\* the statement of C22 for the confidence cf of the last call, in units of
\* 1 / (1000 * tmax)
BonusHolds(cf, tmax, k) ==
    /\ cf.boosted = (IF k >= 2 THEN Min2(cf.calibrated + 120 * (k - 1) * tmax, 1000 * tmax)
                     ELSE cf.calibrated)
    /\ NameAlone => cf.boosted = cf.calibrated

\* C22 (agreement bonus): the confidence of the winner after the bonus is its
\* calibrated confidence plus 0.12 * (k - 1) when k >= 2 (at most 1.0) and
\* unchanged otherwise, k being the number of categories among CAS, name,
\* formula and UN with a signal of weighted score >= 0.40 for the winner or for
\* a candidate of the same base name (at least 5 characters); every name and
\* synonym signal counts as the category name, so a row that gives the name
\* field alone earns no bonus.
C22_AgreementBonus ==
    (Returned /\ result.signals # <<>>) =>
        BonusHolds(LastConfidence, LastRanking.tmax, Cardinality(AgreeingFields))

\* ------------------------------------------------------------------------
\*  Properties of the shared-key tie-break
\* ------------------------------------------------------------------------

\* the positions of the signals of a source tag in the result
TagPositions(tag) == {i \in 1..Len(result.signals) : result.signals[i].source = tag}

\* the records of the store, all of which share the CAS and the UN number
StoreRecords == {db[i] : i \in 1..Len(db)}

\* the statement of C23 for the signals of one source tag: one signal for each
\* record of the key, in ascending order of name length, 1.0 for the first and
\* 0.6 for the others
TieBreakHolds(tag) ==
    /\ {result.signals[i].chemical_id : i \in TagPositions(tag)} = {r.id : r \in StoreRecords}
    /\ Cardinality(TagPositions(tag)) = Cardinality(StoreRecords)
    /\ \A i, j \in TagPositions(tag) :
          i < j => NameLen(result.signals[i].chemical_name) <= NameLen(result.signals[j].chemical_name)
    /\ \A i \in TagPositions(tag) :
          result.signals[i].score = (IF \A j \in TagPositions(tag) : i <= j THEN 1000 ELSE 600)

\* C23 (shared-key tie-break): a call of match() with the CAS or the UN number
\* that several records share returns without an error, and for each of the
\* tags cas_exact, cas_scanned and un_exact that the row feeds, every record of
\* the key has a signal, the signals are in ascending order of name length,
\* the first has raw_score 1.0 and each other one 0.6.
C23_TieBreak ==
    calls > 0 =>
        /\ Returned
        /\ (row.cas.k = "cas" /\ row.cas_valid) => TieBreakHolds("cas_exact")
        /\ (row.cas_scanned # "" /\ row.cas.k # "cas") => TieBreakHolds("cas_scanned")
        /\ row.un.k = "int" => TieBreakHolds("un_exact")

\* ------------------------------------------------------------------------
\*  Properties of the source tag of a scanned CAS
\* ------------------------------------------------------------------------

\* validate_row was called with a row whose cas column does not validate and
\* whose other column holds a checksum-valid CAS
FoundByScanOnly ==
    /\ call.fn = "validate_row"
    /\ ~(call.arg.cas.k = "cas" /\ CasColumnValid(call.arg.cas.s))
    /\ CasColumnValid(call.arg.notes)

\* the records of the store indexed under a CAS
RecordsOfCas(c) == {db[i].id : i \in {j \in 1..Len(db) : c \in Range(db[j].cas)}}

\* C24 (source tag of a scanned CAS): after validate_row and match on its
\* cleaned row, a CAS found only by the scan of the other columns has its
\* signals under cas_scanned, one for each record of that CAS, and none under
\* cas_exact; a cas_exact signal exists only when the cas column validated.
C24_ScannedTag ==
    /\ FoundByScanOnly =>
          /\ \A i \in TagPositions("cas_exact") : FALSE
          /\ {result.signals[i].chemical_id : i \in TagPositions("cas_scanned")}
                = RecordsOfCas(call.arg.notes)
    /\ (call.fn = "validate_row" /\ TagPositions("cas_exact") # {}) =>
          (call.arg.cas.k = "cas" /\ CasColumnValid(call.arg.cas.s))

\* ------------------------------------------------------------------------
\*  Properties of the field-swap detection
\* ------------------------------------------------------------------------

\* the first checksum-valid CAS pattern of the name field, "" when none
CasOfName == FirstValidCas(OrEmpty(row.name).at)

\* the cas field holds text longer than 3 characters that is neither
\* CAS-shaped nor purely numeric
CasFieldIsName ==
    /\ row.cas.k = "text"
    /\ CasLen(row.cas) > 3
    /\ ~CasRegexMatch(row.cas)
    /\ ~CasIsDigits(row.cas)

\* every signal of the text of the cas field, matched as a name, is among the
\* signals of the result
MatchedAsName ==
    \A s \in Range(SignalsFromName(idx, row.cas.n, sc)) :
        \E i \in 1..Len(result.signals) :
            /\ result.signals[i].source = s.source
            /\ result.signals[i].chemical_id = s.chemical_id

\* C25 (field-swap detection): match() returns; a checksum-valid CAS in the name
\* gives a field-swap note and one cas_from_name signal for every record
\* indexed under that CAS; name-like text in the cas field gives a note and is
\* matched as a further name; otherwise there is no note and no cas_from_name
\* signal.
C25_FieldSwap ==
    calls > 0 =>
        /\ Returned
        /\ CasOfName # "" =>
              /\ SwapNoted("cas_in_name")
              /\ {result.signals[i].chemical_id : i \in TagPositions("cas_from_name")}
                    = RecordsOfCas(CasOfName)
              /\ Cardinality(TagPositions("cas_from_name")) = Cardinality(RecordsOfCas(CasOfName))
        /\ CasOfName = "" => (~SwapNoted("cas_in_name") /\ TagPositions("cas_from_name") = {})
        /\ CasFieldIsName => (SwapNoted("name_in_cas") /\ MatchedAsName)
        /\ ~CasFieldIsName => ~SwapNoted("name_in_cas")
        /\ Len(result.field_swaps) <= 2

\* the same statement for stores of at most three records, all with a name
FieldSwapSmallStores ==
    (Len(db) <= 3 /\ \A i \in 1..Len(db) : db[i].name # NullName) => C25_FieldSwap

\* ------------------------------------------------------------------------
\*  Properties of the batch lifecycle and of the tables of a run
\* ------------------------------------------------------------------------

Terminal == {"completed", "error"}

\* a step creates a batch as pending, moves a batch from pending to processing
\* or from processing to a terminal status, or leaves its status alone
LifecycleSteps ==
    /\ Len(batches') >= Len(batches)
    /\ \A b \in 1..Len(batches') :
          IF b > Len(batches) THEN batches'[b].status = "pending"
          ELSE \/ batches'[b].status = batches[b].status
               \/ batches[b].status = "pending" /\ batches'[b].status = "processing"
               \/ batches[b].status = "processing" /\ batches'[b].status \in Terminal

StagingOf(b, k) == {i \in 1..Len(staging) : staging[i].batch_id = b /\ staging[i].row_index = k}

\* the tables account for the rows of every batch: one staging row for each
\* index up to processed, none beyond, processed within total_rows, and a
\* completed batch has processed all its rows
RowsAccounted ==
    \A b \in 1..Len(batches) :
        /\ batches[b].processed <= batches[b].total_rows
        /\ \A i \in 1..Len(staging) :
              staging[i].batch_id = b => staging[i].row_index \in 1..batches[b].processed
        /\ \A k \in 1..batches[b].processed : Cardinality(StagingOf(b, k)) = 1
        /\ batches[b].status = "completed" => batches[b].processed = batches[b].total_rows

\* processed never decreases, and a row added to inventory_staging is the
\* validated outcome of the match of its row, or an ERROR row when that raised
RowSteps ==
    /\ \A b \in 1..Len(batches) : batches'[b].processed >= batches[b].processed
    /\ Len(staging') > Len(staging) =>
          /\ Len(staging') = Len(staging) + 1
          /\ LET new == staging'[Len(staging')]
             IN IF result'.out = "raised" THEN new.match_status = "ERROR"
                ELSE /\ new.match_status = Validated(result').match_status
                     /\ new.chemical_id = Validated(result').chemical_id
                     /\ new.confidence = Validated(result').confidence

EntriesOf(i) == {q \in 1..Len(queue) : queue[q].staging_id = i}

\* no review request has changed a row or an entry yet
NoReviewYet ==
    /\ \A i \in 1..Len(staging) : staging[i].match_method \notin {"manual_confirm", "manual_review"}
    /\ \A q \in 1..Len(queue) : queue[q].status = "pending"

\* C28 (review-queue linkage): when the runs are over and before any review,
\* every REVIEW_REQUIRED or UNIDENTIFIED row of inventory_staging has exactly
\* one review_queue entry, pending and of its batch, whose staging_id is the
\* id of the row, and a MATCHED or ERROR row has none.
C28_QueueLinkage ==
    (Processing = {} /\ NoReviewYet) =>
        \A i \in 1..Len(staging) :
            IF staging[i].match_status \in {"REVIEW_REQUIRED", "UNIDENTIFIED"}
            THEN /\ Cardinality(EntriesOf(i)) = 1
                 /\ \A q \in EntriesOf(i) : queue[q].batch_id = staging[i].batch_id
            ELSE EntriesOf(i) = {}

\* the same statement for the states in which no row has failed and
\* audit_trail has one row for each row of inventory_staging
LinkageWithoutErrors ==
    (audit = Len(staging) /\ \A i \in 1..Len(staging) : staging[i].match_status # "ERROR")
        => C28_QueueLinkage

\* C29 (manual confirmation keeps the queue consistent): a row set to MATCHED
\* by a review request has a chemical_id of chemicals.db, and no MATCHED row
\* of inventory_staging has a pending review_queue entry.
C29_QueueConsistent ==
    /\ \A i \in 1..Len(staging) :
          staging[i].match_method \in {"manual_confirm", "manual_review"}
              => ChemicalExists(db, staging[i].chemical_id)
    /\ \A i \in 1..Len(staging) :
          staging[i].match_status = "MATCHED"
              => \A q \in EntriesOf(i) : queue[q].status # "pending"

\* the second part of C29 for the rows that no confirm request has set
ConsistentWithoutConfirm ==
    (audit = Len(staging) /\ \A i \in 1..Len(staging) : staging[i].match_method # "manual_confirm")
        => C29_QueueConsistent

\* ------------------------------------------------------------------------
\*  Properties of the three CAS checksum functions
\* ------------------------------------------------------------------------

\* the string is trimmed and has no whitespace in it
NoWhitespace(s) == \A i \in 1..Len(s) : s[i] \notin Whitespace

\* C30 (the three CAS checksum implementations agree): on a string without
\* whitespace is_plausible_cas and the validity flag of validate_cas are the
\* same; on a string of 2 to 7 digits, a dash, 2 digits, a dash and 1 digit
\* _validate_cas_checksum gives that answer too; and is_plausible_cas accepts
\* every string of that form whose check digit matches (its length bound of 7
\* to 12 characters rejects none of them).
C30_ChecksumsAgree ==
    /\ (call.fn = "is_plausible_cas" /\ NoWhitespace(call.arg))
          => call.out = ValidateCas(call.arg).valid
    /\ (call.fn = "validate_cas" /\ NoWhitespace(call.arg))
          => call.out.valid = IsPlausibleCas(call.arg)
    /\ (call.fn = "_validate_cas_checksum" /\ HasCasForm(call.arg))
          => (call.out = ValidateCas(call.arg).valid /\ call.out = IsPlausibleCas(call.arg))
    /\ (call.fn = "is_plausible_cas" /\ HasCasForm(call.arg) /\ CheckDigitMatches(call.arg))
          => call.out

\* is_plausible_cas accepted a CAS of 12 characters, the longest of the form
C30_Witness ==
    /\ call.fn = "is_plausible_cas"
    /\ Len(call.arg) = 12
    /\ NoWhitespace(call.arg)
    /\ call.out

\* with a blank inside, the two functions differ: validate_cas removes it
BlankInside ==
    \E s \in CasStrings :
        ~NoWhitespace(s) /\ ValidateCas(s).valid /\ ~IsPlausibleCas(s)

====
